---- MODULE Spec2Model ----
(***************************************************************************)
(* A model of the VeriDoc backend: pipeline routing                        *)
(* (services/pipeline_orchestrator.determine_pipeline), the three          *)
(* analyzers (analyze_visual, analyze_structural, analyze_cryptographic)   *)
(* and the hybrid score fusion of main.analyze_document.                   *)
(*                                                                         *)
(* Scores are kept in hundredths (0.15 is 15, 1.0 is 100); the fused trust *)
(* score is kept in tenths of a point before rounding.  File names are     *)
(* sequences of one-character strings so that lower() and split('.') are   *)
(* computed character by character.                                        *)
(***************************************************************************)
EXTENDS Integers, Sequences, FiniteSets, TLC

VARIABLES
    files,      \* the upload directory: file name -> content of the file
    routeLog,   \* the calls of determine_pipeline made so far, in order
    vis,        \* one run of analyze_visual
    st,         \* one run of analyze_structural
    cr,         \* one run of analyze_cryptographic
    fu,         \* one run of the hybrid scoring of analyze_document
    mdl,        \* the model handles of the process and their callers
    up,         \* the upload directory over time: uploads, sweeps, analyses
    ses,        \* one session of analyze_document: its steps and its trace
    art         \* the files one analysis writes, each with the step writing it

vars == <<files, routeLog, vis, st, cr, fu, mdl, up, ses, art>>

Idle == [pc |-> "idle"]

Min(a, b) == IF a < b THEN a ELSE b

Max(a, b) == IF a > b THEN a ELSE b

(***************************************************************************)
(* File names and file contents                                            *)
(***************************************************************************)

\* str.lower() on one character of the names' alphabet.
LowerChar(c) ==
    CASE c = "P" -> "p"
      [] c = "D" -> "d"
      [] c = "F" -> "f"
      [] c = "J" -> "j"
      [] c = "G" -> "g"
      [] OTHER -> c

\* filename.lower()
Lower(s) == [i \in 1..Len(s) |-> LowerChar(s[i])]

\* The position of the last '.' of s, 0 when s holds none.
LastDot(s) ==
    LET dots == {i \in 1..Len(s) : s[i] = "."}
    IN  IF dots = {} THEN 0 ELSE CHOOSE i \in dots : \A j \in dots : j <= i

\* s.split('.')[-1]: the text after the last '.', the whole of s when it
\* holds no '.'.
SplitLast(s) == SubSeq(s, LastDot(s) + 1, Len(s))

ExtPdf == <<"p", "d", "f">>

ImageExts ==
    { <<"j", "p", "g">>, <<"j", "p", "e", "g">>, <<"p", "n", "g">>,
      <<"t", "i", "f", "f">>, <<"b", "m", "p">>, <<"w", "e", "b", "p">> }

\* What a name can end with: the extensions of the routing table in several
\* cases, an unknown one, and nothing.
Endings ==
    ImageExts \cup
    { ExtPdf, <<"P", "D", "F">>, <<"P", "d", "f">>, <<"J", "P", "G">>,
      <<"d", "o", "c">>, <<"p", "d", "f", "x">>, <<>> }

\* What precedes the ending: nothing (the name has no '.'), a stem without
\* '.', a stem and a '.', and a stem that itself holds a '.'.
Stems ==
    { <<>>, <<"a">>, <<"a", ".">>, <<"a", ".", "p", "d", "f", ".">>,
      <<"x", ".", "j", "p", "g", ".">> }

\* Every name but the empty one, which names no file.
Names == {s \o e : s \in Stems, e \in Endings} \ {<<>>}

MaxSigs == 2

\* The bytes of a file, as the PDF readers see them: "unreadable" (open()
\* raises), "malformed" (the reader raises), or a PDF that parses and
\* holds `sigs` embedded signature fields.
Contents ==
    { [kind |-> "unreadable", sigs |-> 0], [kind |-> "malformed", sigs |-> 0] }
    \cup { [kind |-> "pdf", sigs |-> n] : n \in 0..MaxSigs }

(***************************************************************************)
(* determine_pipeline                                                      *)
(***************************************************************************)

\* with open(filename, 'rb') as f: r = PdfFileReader(f);
\* len(r.embedded_signatures): the exception raised, or the count.
ReadSignatures(content) ==
    CASE content.kind = "unreadable" -> [raised |-> TRUE, count |-> 0]
      [] content.kind = "malformed" -> [raised |-> TRUE, count |-> 0]
      [] OTHER -> [raised |-> FALSE, count |-> content.sigs]

\* The mutant of determine_pipeline without its try/except.
determine_pipeline_unguarded(filename, content) ==
    LET ext == SplitLast(Lower(filename))
        sig == ReadSignatures(content)
    IN  IF ext = ExtPdf
        THEN IF sig.raised THEN [raised |-> TRUE, value |-> "NONE"]
             ELSE IF sig.count > 0
                  THEN [raised |-> FALSE, value |-> "CRYPTOGRAPHIC"]
                  ELSE [raised |-> FALSE, value |-> "STRUCTURAL"]
        ELSE IF ext \in ImageExts
             THEN [raised |-> FALSE, value |-> "VISUAL"]
             ELSE [raised |-> FALSE, value |-> "STRUCTURAL"]

\* The mutant of determine_pipeline that routes on a substring of the name
\* (the file-name heuristic) instead of the content.
determine_pipeline_by_name(filename, content) ==
    LET ext == SplitLast(Lower(filename))
    IN  IF ext = ExtPdf
        THEN IF Len(filename) > 5
             THEN [raised |-> FALSE, value |-> "CRYPTOGRAPHIC"]
             ELSE [raised |-> FALSE, value |-> "STRUCTURAL"]
        ELSE IF ext \in ImageExts
             THEN [raised |-> FALSE, value |-> "VISUAL"]
             ELSE [raised |-> FALSE, value |-> "STRUCTURAL"]

\* determine_pipeline(filename, content_type): what the call returns, and
\* whether it raises.  The content type is never read.
determine_pipeline(filename, content) ==
    LET ext == SplitLast(Lower(filename))
        sig == ReadSignatures(content)
    IN  IF ext = ExtPdf
        THEN IF ~sig.raised /\ sig.count > 0
             THEN [raised |-> FALSE, value |-> "CRYPTOGRAPHIC"]
             ELSE [raised |-> FALSE, value |-> "STRUCTURAL"]
        ELSE IF ext \in ImageExts
             THEN [raised |-> FALSE, value |-> "VISUAL"]
             ELSE [raised |-> FALSE, value |-> "STRUCTURAL"]

MaxCalls == 2

\* The mutant that opens the file for writing, which truncates it.
FilesAfterRouting_truncating(fs, filename) ==
    [fs EXCEPT ![filename] = [kind |-> "malformed", sigs |-> 0]]

\* The files a call of determine_pipeline leaves behind it: the file is
\* opened 'rb' and only read.
FilesAfterRouting(fs, filename) == fs

\* One call determine_pipeline(n, _) on a file of the upload directory.
Route(n) ==
    /\ Len(routeLog) < MaxCalls
    /\ routeLog' = Append(routeLog,
           [name |-> n, content |-> files[n], before |-> files,
            after |-> FilesAfterRouting(files, n),
            out |-> determine_pipeline(n, files[n])])
    /\ files' = FilesAfterRouting(files, n)
    /\ UNCHANGED <<vis, st, cr, fu, mdl, up, ses, art>>

\* Two files of identical bytes under two names (a file and its renamed
\* copy), no call made yet.
InitRoute ==
    /\ art = Idle
    /\ mdl = Idle /\ up = Idle /\ ses = Idle
    /\ \E n1 \in Names, n2 \in Names, c \in Contents :
           files = [n \in {n1, n2} |-> c]
    /\ routeLog = <<>>
    /\ vis = Idle
    /\ st = Idle
    /\ cr = Idle
    /\ fu = Idle

NextRoute == \E n \in DOMAIN files : Route(n)

SpecRoute == InitRoute /\ [][NextRoute]_vars

(***************************************************************************)
(* analyze_visual: the five checks and what they return                    *)
(*                                                                         *)
(* A Python dict is a record; d.get(k, v) is Get(d, k, v).  An exception   *)
(* object is a record with the one field exc.  A bare string stored in     *)
(* place of a dict is a record with the one field str.                     *)
(***************************************************************************)

Get(d, k, default) == IF k \in DOMAIN d THEN d[k] ELSE default

\* isinstance(x, Exception)
IsException(x) == "exc" \in DOMAIN x

Exc(why) == [exc |-> why]

Checks == {"ela", "quant", "seg", "noise", "trufor"}

\* {"status": "error", "message": ...}: the error value of perform_ela,
\* analyze_quantization and perform_noise_analysis.
StatusError == [status |-> "error", message |-> "Could not read image"]

\* perform_ela on an image it can read: the statistics of the difference
\* image.
perform_ela(stats) ==
    [status |-> "success", max_difference |-> stats.max,
     mean_difference |-> stats.mean, std_deviation |-> stats.std,
     ela_image_path |-> "ela.png"]

\* The difference statistics the model draws: mean <= max <= 255.
ElaStats ==
    { [max |-> 0, mean |-> 0, std |-> 0], [max |-> 20, mean |-> 5, std |-> 2],
      [max |-> 40, mean |-> 15, std |-> 5],
      [max |-> 40, mean |-> 16, std |-> 5], [max |-> 255, mean |-> 16, std |-> 9] }

\* analyze_quantization on an image it can read: zeros is the number of
\* empty bins among bins 1..254 of the histogram.
analyze_quantization(zeros) ==
    [status |-> "success", histogram_gaps |-> zeros, suspicious |-> (zeros > 10)]

HistogramGaps == {10, 11}

\* run_tamper_detection when inference succeeds: conf is the 99th
\* percentile of the tamper probability map, in hundredths.
run_tamper_detection(conf) ==
    [is_tampered |-> (conf > 50), confidence_score |-> conf,
     details |-> "SegFormer Deep Learning Model", heatmap_image |-> "base64"]

\* run_tamper_detection when anything in it raised: the safe fallback.
run_tamper_detection_failed ==
    [is_tampered |-> FALSE, confidence_score |-> 0, error |-> "msg",
     details |-> "Inference Error"]

SegConfidences == {10, 50, 51, 100}

\* perform_noise_analysis on an image it can read.
perform_noise_analysis == [status |-> "success", noise_map_path |-> "noise.png"]

\* TruForEngine.analyze with a loaded model: trust is 1 - max of the
\* weighted anomaly map, in hundredths.
trufor_analyze(trust) ==
    [heatmap |-> "array", raw_confidence |-> "array", trust_score |-> trust,
     verdict |-> IF trust < 50 THEN "Forged" ELSE "Authentic"]

\* TruForEngine.analyze when the model was never loaded.
trufor_not_loaded ==
    [heatmap |-> "None", confidence_map |-> "None", trust_score |-> 100,
     error |-> "Model not loaded"]

\* TruForEngine.analyze when inference raised.
trufor_analyze_failed == [trust_score |-> 100, error |-> "msg"]

TrustScores == {49, 50}

\* What run_in_executor hands back for each check: the helper's success
\* payload, its error value, or an exception raised past the helper.
Outcomes(c) ==
    CASE c = "ela" ->
             {perform_ela(x) : x \in ElaStats} \cup {StatusError, Exc("executor")}
      [] c = "quant" ->
             {analyze_quantization(z) : z \in HistogramGaps}
                 \cup {StatusError, Exc("executor")}
      [] c = "seg" ->
             {run_tamper_detection(x) : x \in SegConfidences}
                 \cup {run_tamper_detection_failed, Exc("executor")}
      [] c = "noise" -> {perform_noise_analysis, StatusError, Exc("executor")}
      [] OTHER ->
             {trufor_analyze(t) : t \in TrustScores}
                 \cup {trufor_not_loaded, trufor_analyze_failed, Exc("executor")}

(***************************************************************************)
(* analyze_visual: the sequential aggregation                              *)
(***************************************************************************)

\* 1. ELA
AggregateEla(ela_res) ==
    IF IsException(ela_res)
    THEN [entry |-> [status |-> "error"], flags |-> <<"ELA Failed">>, delta |-> 0]
    ELSE IF Get(ela_res, "status", "None") = "success" /\ ela_res.mean_difference > 15
         THEN [entry |-> ela_res, flags |-> <<"High ELA Response">>, delta |-> 40]
         ELSE [entry |-> ela_res, flags |-> <<>>, delta |-> 0]

\* 2. Quantization
AggregateQuant(quant_res) ==
    IF IsException(quant_res)
    THEN [entry |-> [status |-> "error"], flags |-> <<>>, delta |-> 0]
    ELSE IF Get(quant_res, "status", "None") = "success" /\ quant_res.suspicious
         THEN [entry |-> quant_res, flags |-> <<"Suspicious Histogram">>, delta |-> 30]
         ELSE [entry |-> quant_res, flags |-> <<>>, delta |-> 0]

\* 3. SegFormer
AggregateSeg(seg_res) ==
    IF IsException(seg_res)
    THEN [entry |-> [str |-> "Model Failed"], flags |-> <<>>, delta |-> 0]
    ELSE IF Get(seg_res, "is_tampered", FALSE)
         THEN [entry |-> seg_res, flags |-> <<"SegFormer: Tampering Detected">>,
               delta |-> 60]
         ELSE [entry |-> seg_res, flags |-> <<>>, delta |-> 0]

\* 4. Noise
AggregateNoise(noise_res) ==
    IF IsException(noise_res)
    THEN [entry |-> [str |-> "Noise Map Failed"], flags |-> <<>>, delta |-> 0]
    ELSE [entry |-> noise_res, flags |-> <<>>, delta |-> 0]

\* The TruFor payload once the overlay is saved: heatmap_path is added, the
\* raw arrays are deleted.
WithoutArrays(d) ==
    [k \in (DOMAIN d \ {"heatmap", "raw_confidence"}) \cup {"heatmap_path"} |->
        IF k = "heatmap_path" THEN "trufor.png" ELSE d[k]]

\* The mutant of AggregateTrufor that also flags a trust score of exactly 0.5.
AggregateTrufor_inclusive(trufor_res, saved) ==
    IF IsException(trufor_res)
    THEN [entry |-> [error |-> "msg"], flags |-> <<>>, delta |-> 0]
    ELSE LET entry == IF Get(trufor_res, "heatmap", "None") # "None" /\ saved
                      THEN WithoutArrays(trufor_res)
                      ELSE trufor_res
         IN  IF Get(trufor_res, "trust_score", 100) <= 50
             THEN [entry |-> entry, flags |-> <<"TruFor Detected Anomaly">>,
                   delta |-> 80]
             ELSE [entry |-> entry, flags |-> <<>>, delta |-> 0]

\* 5. TruFor; saved tells whether writing the overlay succeeded.
AggregateTrufor(trufor_res, saved) ==
    IF IsException(trufor_res)
    THEN [entry |-> [error |-> "msg"], flags |-> <<>>, delta |-> 0]
    ELSE LET entry == IF Get(trufor_res, "heatmap", "None") # "None" /\ saved
                      THEN WithoutArrays(trufor_res)
                      ELSE trufor_res
         IN  IF Get(trufor_res, "trust_score", 100) < 50
             THEN [entry |-> entry, flags |-> <<"TruFor Detected Anomaly">>,
                   delta |-> 80]
             ELSE [entry |-> entry, flags |-> <<>>, delta |-> 0]

\* The mutant of AggregateVisual that skips the scoring of the other checks
\* once the ELA task has raised.
AggregateVisual_ela_failure_skips(res, saved) ==
    LET e == AggregateEla(res["ela"])
        q == AggregateQuant(res["quant"])
        s == AggregateSeg(res["seg"])
        n == AggregateNoise(res["noise"])
        t == AggregateTrufor(res["trufor"], saved)
        failed == IsException(res["ela"])
    IN  [pipeline |-> "Visual Analysis",
         score |-> IF failed THEN 0
                   ELSE Min(e.delta + q.delta + s.delta + t.delta, 100),
         flags |-> IF failed THEN e.flags
                   ELSE e.flags \o q.flags \o s.flags \o t.flags,
         details |-> [ela |-> e.entry, quantization |-> q.entry,
                      semantic_segmentation |-> s.entry,
                      noise_analysis |-> n.entry, trufor |-> t.entry]]

\* The mutant of AggregateVisual that appends the flags of TruFor before
\* those of the other checks.
AggregateVisual_trufor_first(res, saved) ==
    LET e == AggregateEla(res["ela"])
        q == AggregateQuant(res["quant"])
        s == AggregateSeg(res["seg"])
        n == AggregateNoise(res["noise"])
        t == AggregateTrufor(res["trufor"], saved)
    IN  [pipeline |-> "Visual Analysis",
         score |-> Min(e.delta + q.delta + s.delta + t.delta, 100),
         flags |-> t.flags \o e.flags \o q.flags \o s.flags,
         details |-> [ela |-> e.entry, quantization |-> q.entry,
                      semantic_segmentation |-> s.entry,
                      noise_analysis |-> n.entry, trufor |-> t.entry]]

\* The report analyze_visual builds from the five gathered results.
AggregateVisual(res, saved) ==
    LET e == AggregateEla(res["ela"])
        q == AggregateQuant(res["quant"])
        s == AggregateSeg(res["seg"])
        n == AggregateNoise(res["noise"])
        t == AggregateTrufor(res["trufor"], saved)
    IN  [pipeline |-> "Visual Analysis",
         score |-> Min(e.delta + q.delta + s.delta + t.delta, 100),
         flags |-> e.flags \o q.flags \o s.flags \o t.flags,
         details |-> [ela |-> e.entry, quantization |-> q.entry,
                      semantic_segmentation |-> s.entry,
                      noise_analysis |-> n.entry, trufor |-> t.entry]]

(***************************************************************************)
(* analyze_visual: one run, its five checks as concurrent tasks            *)
(***************************************************************************)

NoResult == [none |-> TRUE]

\* The progress callback of a run: "none" (no callback was passed), "ok"
\* (send_progress reaches the client), "gone" (the client has disconnected
\* and send_progress raises).
CallbackModes == {"none", "ok", "gone"}

\* The mutant without return_exceptions: the first exception is raised to
\* the caller.
GatherOutcome_propagating(chk) ==
    IF \E c \in Checks : chk[c].st = "settled" /\ IsException(chk[c].res)
    THEN "raise"
    ELSE IF \A c \in Checks : chk[c].st = "settled" THEN "results" ELSE "wait"

\* The mutant of GatherOutcome that hands back as soon as one task has
\* settled.
GatherOutcome_first_completed(chk) ==
    IF \E c \in Checks : chk[c].st = "settled" THEN "results" ELSE "wait"

\* What asyncio.gather(..., return_exceptions=True) does with the tasks'
\* states: it waits until all five have settled and then hands back every
\* result, exceptions included, as values.
GatherOutcome(chk) ==
    IF \A c \in Checks : chk[c].st = "settled" THEN "results" ELSE "wait"

\* analyze_visual is called: the first progress message is sent, then
\* gather creates the five tasks.
VisStart ==
    /\ vis.pc = "called"
    /\ IF vis.cb = "gone"
       THEN vis' = [vis EXCEPT !.pc = "raised"]
       ELSE vis' = [vis EXCEPT !.pc = "gather",
                        !.chk = [c \in Checks |-> [st |-> "created", res |-> NoResult]]]
    /\ UNCHANGED <<files, routeLog, st, cr, fu, mdl, up, ses, art>>

\* The client disconnects while the analysis runs.
VisDisconnect ==
    /\ vis.pc \in {"called", "gather"}
    /\ vis.cb = "ok"
    /\ vis' = [vis EXCEPT !.cb = "gone"]
    /\ UNCHANGED <<files, routeLog, st, cr, fu, mdl, up, ses, art>>

\* Task c runs up to its await of run_in_executor: it sends its progress
\* message (which raises when the client is gone) and hands the helper to
\* the executor.
CheckBegin(c) ==
    /\ vis.pc = "gather"
    /\ vis.chk[c].st = "created"
    /\ IF vis.cb = "gone"
       THEN vis' = [vis EXCEPT !.chk[c] = [st |-> "settled", res |-> Exc("callback")],
                               !.first = IF @ = "none" THEN c ELSE @]
       ELSE vis' = [vis EXCEPT !.chk[c].st = "running"]
    /\ UNCHANGED <<files, routeLog, st, cr, fu, mdl, up, ses, art>>

\* The helper of task c returns (or raises) in the executor; vis.first
\* is the task that settled before all others.
CheckSettle(c) ==
    /\ vis.pc = "gather"
    /\ vis.chk[c].st = "running"
    /\ \E r \in Outcomes(c) :
           vis' = [vis EXCEPT !.chk[c] = [st |-> "settled", res |-> r],
                              !.first = IF @ = "none" THEN c ELSE @]
    /\ UNCHANGED <<files, routeLog, st, cr, fu, mdl, up, ses, art>>

\* gather hands back to analyze_visual: the five results, which are
\* aggregated into the report that is returned, or an exception, which
\* analyze_visual does not handle.
VisAggregate ==
    /\ vis.pc = "gather"
    /\ GatherOutcome(vis.chk) # "wait"
    /\ IF GatherOutcome(vis.chk) = "raise"
       THEN vis' = [vis EXCEPT !.pc = "raised"]
       ELSE \E saved \in BOOLEAN :
                vis' = [vis EXCEPT !.pc = "done",
                            !.rep = AggregateVisual([c \in Checks |-> vis.chk[c].res],
                                                    saved)]
    /\ UNCHANGED <<files, routeLog, st, cr, fu, mdl, up, ses, art>>

InitVisual ==
    /\ art = Idle
    /\ mdl = Idle /\ up = Idle /\ ses = Idle
    /\ files = <<>>
    /\ routeLog = <<>>
    /\ \E cb \in CallbackModes :
           vis = [pc |-> "called", cb |-> cb,
                  chk |-> [c \in Checks |-> [st |-> "none", res |-> NoResult]],
                  first |-> "none", rep |-> NoResult]
    /\ st = Idle
    /\ cr = Idle
    /\ fu = Idle

NextVisual ==
    \/ VisStart
    \/ VisDisconnect
    \/ \E c \in Checks : CheckBegin(c)
    \/ \E c \in Checks : CheckSettle(c)
    \/ VisAggregate

SpecVisual == InitVisual /\ [][NextVisual]_vars

(***************************************************************************)
(* analyze_structural                                                      *)
(***************************************************************************)

\* d[k] = v on a dict.
Put(d, k, v) == [x \in DOMAIN d \cup {k} |-> IF x = k THEN v ELSE d[x]]

\* results['flags'].append(f), results['score'] += delta
Flag(r, f, delta) ==
    [r EXCEPT !.flags = Append(@, f), !.score = @ + delta]

MaxEof == 8

MaxImages == 4

\* embedded_images[:3]
MaxAnalyzedImages == 3

\* The gathered results of analyze_visual on an embedded image.  The call
\* passes no callback, so a task raises only past its helper.
Results(e, q, s, n, t) ==
    [c \in Checks |->
        CASE c = "ela" -> e [] c = "quant" -> q [] c = "seg" -> s
          [] c = "noise" -> n [] OTHER -> t]

\* The results drawn for embedded images: a clean image; a high ELA
\* response alone (score 0.4); tampering found by the segmentation model; a
\* TruFor anomaly alone; a segmentation task that raised beside two other
\* findings; every helper returning its error value; tampering found with
\* confidence 0.60.
EmbeddedResults ==
    { Results(perform_ela([max |-> 0, mean |-> 0, std |-> 0]), analyze_quantization(10),
              run_tamper_detection(10), perform_noise_analysis, trufor_analyze(50)),
      Results(perform_ela([max |-> 40, mean |-> 16, std |-> 5]), analyze_quantization(10),
              run_tamper_detection(50), perform_noise_analysis, trufor_analyze(50)),
      Results(perform_ela([max |-> 40, mean |-> 15, std |-> 5]), analyze_quantization(10),
              run_tamper_detection(51), perform_noise_analysis, trufor_analyze(50)),
      Results(StatusError, analyze_quantization(10),
              run_tamper_detection(10), perform_noise_analysis, trufor_analyze(49)),
      Results(perform_ela([max |-> 255, mean |-> 16, std |-> 9]), analyze_quantization(11),
              Exc("executor"), perform_noise_analysis, trufor_not_loaded),
      Results(StatusError, StatusError, run_tamper_detection_failed, StatusError,
              trufor_analyze_failed),
      Results(perform_ela([max |-> 20, mean |-> 5, std |-> 2]), analyze_quantization(10),
              run_tamper_detection(60), perform_noise_analysis, trufor_analyze(50)) }

\* What happens to one embedded image in the loop: the progress callback
\* raises, writing the temporary file raises, or analyze_visual returns.
ImageEvents ==
    { [ev |-> "callback_raises"], [ev |-> "write_raises"] }
    \cup { [ev |-> "analyzed", res |-> r] : r \in EmbeddedResults }

\* The events of a loop over k images: it ends at the first one that raises.
RECURSIVE EventSeqs(_)
EventSeqs(k) ==
    IF k = 0 THEN { <<>> }
    ELSE { <<e>> : e \in {x \in ImageEvents : x.ev # "analyzed"} }
         \cup { <<e>> \o s : e \in {x \in ImageEvents : x.ev = "analyzed"},
                             s \in EventSeqs(k - 1) }

\* An embedded image that the loop does not reach: analyze_visual would
\* return the report of a clean image.
UnreachedImage ==
    [ev |-> "analyzed",
     res |-> Results(perform_ela([max |-> 0, mean |-> 0, std |-> 0]),
                     analyze_quantization(10), run_tamper_detection(10),
                     perform_noise_analysis, trufor_analyze(50))]

\* The events of the k embedded images of a file, up to the first one that
\* raises: every outcome for the first three, one for the images after them.
RECURSIVE PadEvents(_, _)
PadEvents(s, k) ==
    IF Len(s) >= k \/ \E i \in 1..Len(s) : s[i].ev # "analyzed" THEN s
    ELSE PadEvents(Append(s, UnreachedImage), k)

ImageEventSeqs(k) == { PadEvents(s, k) : s \in EventSeqs(Min(k, MaxAnalyzedImages)) }

\* The mutant of EmbeddedSlice that takes every embedded image.
EmbeddedSlice_all(embedded_images) == embedded_images

\* embedded_images[:3]
EmbeddedSlice(embedded_images) ==
    SubSeq(embedded_images, 1, Min(Len(embedded_images), MaxAnalyzedImages))

\* Whether reader.metadata raises, is absent (or empty), lacks a producer,
\* names a blacklisted producer ("phantom", "gpl output"), or is clean.
MetaOutcomes == {"raises", "absent", "no_producer", "blacklisted", "clean"}

\* The root object: whether reading it raises, and the entries it holds.
RootOutcomes ==
    { [raises |-> TRUE, embedded |-> FALSE, js |-> FALSE] }
    \cup { [raises |-> FALSE, embedded |-> e, js |-> j] : e \in BOOLEAN, j \in BOOLEAN }

NoRoot == [raises |-> FALSE, embedded |-> FALSE, js |-> FALSE]

\* The inputs of one run: the file (whether open() succeeds, the number of
\* %%EOF markers), whether PdfReader raises, the metadata, the embedded
\* images (whether listing them raises, how many there are, what happens
\* to the first three) and the root object.  What is never reached (the
\* parser on an unreadable file, the metadata of a file that does not
\* parse) is given as raising.
StructuralInput(file, parses, meta, pages_raise, count, events, root) ==
    [readable |-> file.readable, eof |-> file.eof, xref |-> file.xref,
     parses |-> parses, meta |-> meta,
     pages_raise |-> pages_raise, count |-> count, events |-> events, root |-> root]

\* The files analyze_structural is called on: unreadable, or holding n
\* '%%EOF' markers and as many 'xref' keywords (one per saved revision).
StructuralFiles ==
    { [readable |-> FALSE, eof |-> 0, xref |-> 0] }
    \cup { [readable |-> TRUE, eof |-> n, xref |-> n] : n \in 0..MaxEof }

\* except Exception as e: results['error'] = ...
StructuralFailed(r) == Put(r, "error", "Analysis Failed")

\* The mutant of ScanEof that adds to the score where the code assigns it.
ScanEof_adding(r, eof_count, xref_count) ==
    LET d == [r EXCEPT !.details = Put(Put(@, "eof_markers_found", eof_count),
                                       "xref_keywords_found", xref_count)]
    IN  IF eof_count > 1
        THEN Flag(d, "Incremental Updates", 15 * (eof_count - 1))
        ELSE IF eof_count = 0
             THEN Flag(d, "Malformed PDF: No %%EOF marker found", 50)
             ELSE d

\* 1. Incremental Update Detection (Raw Bytes)
ScanEof(r, eof_count, xref_count) ==
    LET d == [r EXCEPT !.details = Put(Put(@, "eof_markers_found", eof_count),
                                       "xref_keywords_found", xref_count)]
    IN  IF eof_count > 1
        THEN Flag(d, "Incremental Updates", 15 * (eof_count - 1))
        ELSE IF eof_count = 0
             THEN [d EXCEPT !.flags = Append(@, "Malformed PDF: No %%EOF marker found"),
                            !.score = 100]
             ELSE d

\* A. Metadata Forensics (meta is not "raises")
CheckMetadata(r, meta) ==
    CASE meta = "absent" -> Flag(r, "No Metadata found", 10)
      [] meta = "no_producer" ->
             Flag([r EXCEPT !.details = Put(@, "metadata", "safe_meta")],
                  "Missing Producer Metadata", 20)
      [] meta = "blacklisted" ->
             Flag([r EXCEPT !.details = Put(@, "metadata", "safe_meta")],
                  "Suspicious Producer detected", 30)
      [] OTHER -> [r EXCEPT !.details = Put(@, "metadata", "safe_meta")]

\* The mutant of AfterImage that also counts a sub-score of exactly 0.4.
AfterImage_inclusive(r, idx, visual_report) ==
    LET summary == [index |-> idx, filename |-> idx, visual_report |-> visual_report]
        kept == [r EXCEPT !.details.analyzed_images = Append(@, summary)]
        sem == visual_report.details.semantic_segmentation
    IN  IF Get(visual_report, "score", 0) >= 40
        THEN IF ~("str" \in DOMAIN sem) /\ Get(sem, "is_tampered", FALSE)
             THEN Flag(Flag(kept, "Embedded Image: Potential Tampering Detected", 40),
                       "SegFormer found tampering in embedded image", 30)
             ELSE Flag(kept, "Embedded Image: Potential Tampering Detected", 40)
        ELSE kept

\* The body of the loop over embedded_images[:3] for an image on which
\* analyze_visual returned visual_report.
AfterImage(r, idx, visual_report) ==
    LET summary == [index |-> idx, filename |-> idx, visual_report |-> visual_report]
        kept == [r EXCEPT !.details.analyzed_images = Append(@, summary)]
        sem == visual_report.details.semantic_segmentation
    IN  IF Get(visual_report, "score", 0) > 40
        THEN IF ~("str" \in DOMAIN sem) /\ Get(sem, "is_tampered", FALSE)
             THEN Flag(Flag(kept, "Embedded Image: Potential Tampering Detected", 40),
                       "SegFormer found tampering in embedded image", 30)
             ELSE Flag(kept, "Embedded Image: Potential Tampering Detected", 40)
        ELSE kept

\* The loop over embedded_images[:3], from image idx on: the report as far
\* as the loop got, whether it ended by an exception, and the images
\* analyze_visual was called on.
RECURSIVE ImagesLoop(_, _, _, _)
ImagesLoop(r, events, idx, called) ==
    IF events = <<>> THEN [rep |-> r, raised |-> FALSE, called |-> called]
    ELSE IF Head(events).ev # "analyzed"
         THEN [rep |-> r, raised |-> TRUE, called |-> called]
         ELSE ImagesLoop(AfterImage(r, idx, AggregateVisual(Head(events).res, TRUE)),
                         Tail(events), idx + 1, Append(called, idx))

\* Deep Image Inspection (Extract & Analyze), with its try/except.
InspectImages(r, in) ==
    IF in.pages_raise
    THEN [rep |-> Put(r, "warnings", "Deep Image Inspection failed"), called |-> <<>>]
    ELSE LET d == [r EXCEPT !.details = Put(Put(@, "embedded_image_count", in.count),
                                            "analyzed_images", <<>>)]
             loop == ImagesLoop(d, EmbeddedSlice(in.events), 0, <<>>)
         IN  IF loop.raised
             THEN [rep |-> Put(loop.rep, "warnings", "Deep Image Inspection failed"),
                   called |-> loop.called]
             ELSE [rep |-> loop.rep, called |-> loop.called]

\* B. Orphan / Hidden Content Analysis, with its try/except.
CheckRoot(r, root) ==
    IF root.raises
    THEN Put(r, "warnings", "Advanced structural check warning")
    ELSE LET e == IF root.embedded
                  THEN Flag(r, "Contains Embedded Files (Potential Payload)", 30)
                  ELSE r
         IN  IF root.js THEN Flag(e, "Contains Embeded JavaScript (High Risk)", 50)
             ELSE e

\* results['score'] = min(results['score'], 1.0)
ClampScore(r) == [r EXCEPT !.score = Min(@, 100)]

\* analyze_structural(file_path, callback): the report it returns and the
\* embedded images it called analyze_visual on.
analyze_structural(in) ==
    LET r0 == [pipeline |-> "Structural Forensics (Real)", score |-> 0,
               flags |-> <<>>, details |-> <<>>]
        r1 == ScanEof(r0, in.eof, in.xref)
    IN  IF ~in.readable THEN [rep |-> StructuralFailed(r0), called |-> <<>>]
        ELSE IF ~in.parses \/ in.meta = "raises"
             THEN [rep |-> StructuralFailed(r1), called |-> <<>>]
             ELSE LET img == InspectImages(CheckMetadata(r1, in.meta), in)
                  IN  [rep |-> ClampScore(CheckRoot(img.rep, in.root)),
                       called |-> img.called]

\* analyze_structural returns.
StructuralReturns(in) ==
    LET out == analyze_structural(in)
    IN  st' = [pc |-> "done", in |-> in, rep |-> out.rep, called |-> out.called]

\* One run of analyze_structural on the file it was called on, for every
\* outcome of the PDF reader and of the visual analysis of the images.
AnalyzeStructural ==
    /\ st.pc = "called"
    /\ \/ /\ ~st.file.readable
          /\ StructuralReturns(StructuralInput(st.file, FALSE, "raises", FALSE, 0, <<>>, NoRoot))
       \/ /\ st.file.readable
          /\ \E parses \in BOOLEAN :
                 StructuralReturns(StructuralInput(st.file, parses, "raises", FALSE, 0, <<>>,
                                                   NoRoot))
       \/ /\ st.file.readable
          /\ \E m \in MetaOutcomes \ {"raises"}, ro \in RootOutcomes :
                 \/ StructuralReturns(StructuralInput(st.file, TRUE, m, TRUE, 0, <<>>, ro))
                 \/ \E k \in 0..MaxImages : \E ev \in ImageEventSeqs(k) :
                        StructuralReturns(StructuralInput(st.file, TRUE, m, FALSE, k, ev, ro))
    /\ UNCHANGED <<files, routeLog, vis, cr, fu, mdl, up, ses, art>>

InitStructural ==
    /\ art = Idle
    /\ mdl = Idle /\ up = Idle /\ ses = Idle
    /\ files = <<>>
    /\ routeLog = <<>>
    /\ vis = Idle
    /\ \E f \in StructuralFiles : st = [pc |-> "called", file |-> f]
    /\ cr = Idle
    /\ fu = Idle

NextStructural == AnalyzeStructural

SpecStructural == InitStructural /\ [][NextStructural]_vars

(***************************************************************************)
(* analyze_cryptographic                                                   *)
(***************************************************************************)

\* What happens to one embedded signature in the loop: the progress
\* callback raises, async_validate_pdf_signature raises, or it returns a
\* status.
SignatureEvents ==
    { [ev |-> "callback_raises"], [ev |-> "validate_raises"] }
    \cup { [ev |-> "validated", intact |-> i, revoked |-> r, trusted |-> t] :
             i \in BOOLEAN, r \in BOOLEAN, t \in BOOLEAN }

\* The lists of 0..n signature events.
RECURSIVE SignatureSeqs(_)
SignatureSeqs(n) ==
    IF n = 0 THEN { <<>> }
    ELSE SignatureSeqs(n - 1)
         \cup { Append(s, e) : s \in {x \in SignatureSeqs(n - 1) : Len(x) = n - 1},
                               e \in SignatureEvents }

\* results['flags'].append(...) of a message that names sig.field_name.
FlagField(r, text, field, delta) ==
    [r EXCEPT !.flags = Append(@, <<text, field>>), !.score = @ + delta]

\* The mutant of AfterSignature that scores a revoked certificate as the
\* soft warning.
AfterSignature_revoked_soft(acc, e, field) ==
    IF e.ev # "validated"
    THEN [sig_status |-> Append(acc.sig_status,
                                [field |-> field, valid |-> FALSE, error |-> "msg",
                                 trusted |-> FALSE]),
          rep |-> FlagField(acc.rep, "ERROR: Could not validate signature", field, 0)]
    ELSE LET summary == [field |-> field, valid |-> e.intact, intact |-> e.intact,
                         trusted |-> e.trusted, revoked |-> e.revoked]
             sigs == Append(acc.sig_status, summary)
         IN  IF ~e.intact
             THEN [sig_status |-> sigs,
                   rep |-> FlagField(acc.rep, "CRITICAL: Signature is BROKEN", field, 100)]
             ELSE IF e.revoked
                  THEN [sig_status |-> sigs,
                        rep |-> FlagField(acc.rep, "CRITICAL: Certificate has been REVOKED",
                                          field, 30)]
                  ELSE IF ~e.trusted
                       THEN [sig_status |-> sigs,
                             rep |-> FlagField(acc.rep, "WARNING: Signature is Untrusted",
                                               field, 30)]
                       ELSE [sig_status |-> sigs, rep |-> acc.rep]

\* The mutant of AfterSignature whose except clause records nothing for
\* the signature that raised.
AfterSignature_error_dropped(acc, e, field) ==
    IF e.ev # "validated"
    THEN acc
    ELSE LET summary == [field |-> field, valid |-> e.intact, intact |-> e.intact,
                         trusted |-> e.trusted, revoked |-> e.revoked]
             sigs == Append(acc.sig_status, summary)
         IN  IF ~e.intact
             THEN [sig_status |-> sigs,
                   rep |-> FlagField(acc.rep, "CRITICAL: Signature is BROKEN", field, 100)]
             ELSE IF e.revoked
                  THEN [sig_status |-> sigs,
                        rep |-> FlagField(acc.rep, "CRITICAL: Certificate has been REVOKED",
                                          field, 100)]
                  ELSE IF ~e.trusted
                       THEN [sig_status |-> sigs,
                             rep |-> FlagField(acc.rep, "WARNING: Signature is Untrusted",
                                               field, 30)]
                       ELSE [sig_status |-> sigs, rep |-> acc.rep]

\* The body of the loop over r.embedded_signatures for the signature of
\* field name field: sig_status and results after it.
AfterSignature(acc, e, field) ==
    IF e.ev # "validated"
    THEN [sig_status |-> Append(acc.sig_status,
                                [field |-> field, valid |-> FALSE, error |-> "msg",
                                 trusted |-> FALSE]),
          rep |-> FlagField(acc.rep, "ERROR: Could not validate signature", field, 0)]
    ELSE LET summary == [field |-> field, valid |-> e.intact, intact |-> e.intact,
                         trusted |-> e.trusted, revoked |-> e.revoked]
             sigs == Append(acc.sig_status, summary)
         IN  IF ~e.intact
             THEN [sig_status |-> sigs,
                   rep |-> FlagField(acc.rep, "CRITICAL: Signature is BROKEN", field, 100)]
             ELSE IF e.revoked
                  THEN [sig_status |-> sigs,
                        rep |-> FlagField(acc.rep, "CRITICAL: Certificate has been REVOKED",
                                          field, 100)]
                  ELSE IF ~e.trusted
                       THEN [sig_status |-> sigs,
                             rep |-> FlagField(acc.rep, "WARNING: Signature is Untrusted",
                                               field, 30)]
                       ELSE [sig_status |-> sigs, rep |-> acc.rep]

\* for sig in r.embedded_signatures, from the signature numbered field on;
\* the signatures' field names are their numbers.
RECURSIVE SignaturesLoop(_, _, _)
SignaturesLoop(acc, events, field) ==
    IF events = <<>> THEN acc
    ELSE SignaturesLoop(AfterSignature(acc, Head(events), field), Tail(events), field + 1)

\* analyze_cryptographic(file_path, callback).  early tells what fails
\* before the loop: "callback" (the first progress message raises, outside
\* the try), "setup" (anything inside the try: the import, the second
\* progress message, open(), PdfFileReader, the validation context), or
\* "none".
analyze_cryptographic(early, events) ==
    LET r0 == [pipeline |-> "Cryptographic Analysis (Digital Signatures)", score |-> 0,
               flags |-> <<>>, details |-> <<>>]
    IN  IF early = "callback" THEN [raised |-> TRUE, rep |-> NoResult]
        ELSE IF early = "setup"
             THEN [raised |-> FALSE,
                   rep |-> Put(r0, "error", "Cryptographic Analysis Failed")]
             ELSE IF events = <<>>
                  THEN [raised |-> FALSE,
                        rep |-> [Flag(r0, "No Embedded Signatures found", 0)
                                   EXCEPT !.details = Put(@, "signature_count", 0)]]
                  ELSE LET loop == SignaturesLoop([sig_status |-> <<>>, rep |-> r0], events, 1)
                       IN  [raised |-> FALSE,
                            rep |-> ClampScore(
                                [loop.rep EXCEPT !.details =
                                    Put(Put(@, "signatures", loop.sig_status),
                                        "signature_count", Len(loop.sig_status))])]

\* One run of analyze_cryptographic.
AnalyzeCryptographic ==
    /\ cr.pc = "called"
    /\ \E early \in {"callback", "setup", "none"} :
       \E events \in IF early = "none" THEN SignatureSeqs(MaxSigs) ELSE { <<>> } :
           LET out == analyze_cryptographic(early, events)
           IN  cr' = [pc |-> IF out.raised THEN "raised" ELSE "done",
                      early |-> early, events |-> events, rep |-> out.rep]
    /\ UNCHANGED <<files, routeLog, vis, st, fu, mdl, up, ses, art>>

InitCryptographic ==
    /\ art = Idle
    /\ mdl = Idle /\ up = Idle /\ ses = Idle
    /\ files = <<>>
    /\ routeLog = <<>>
    /\ vis = Idle
    /\ st = Idle
    /\ cr = [pc |-> "called"]
    /\ fu = Idle

NextCryptographic == AnalyzeCryptographic

SpecCryptographic == InitCryptographic /\ [][NextCryptographic]_vars

(***************************************************************************)
(* The three analyzers, one of them called                                 *)
(***************************************************************************)

InitAnalyze ==
    /\ art = Idle
    /\ mdl = Idle /\ up = Idle /\ ses = Idle
    /\ files = <<>>
    /\ routeLog = <<>>
    /\ \E which \in {"visual", "structural", "cryptographic"} :
           /\ IF which = "visual"
              THEN \E cb \in CallbackModes :
                       vis = [pc |-> "called", cb |-> cb,
                              chk |-> [c \in Checks |-> [st |-> "none", res |-> NoResult]],
                              first |-> "none", rep |-> NoResult]
              ELSE vis = Idle
           /\ IF which = "structural"
              THEN \E f \in StructuralFiles : st = [pc |-> "called", file |-> f]
              ELSE st = Idle
           /\ cr = IF which = "cryptographic" THEN [pc |-> "called"] ELSE Idle
    /\ fu = Idle

NextAnalyze == NextVisual \/ NextStructural \/ NextCryptographic

SpecAnalyze == InitAnalyze /\ [][NextAnalyze]_vars

(***************************************************************************)
(* analyze_document: the hybrid scoring                                    *)
(*                                                                         *)
(* Authenticity values are kept in tenths of a point (100.0 is 1000), the  *)
(* weighted sum in hundredths of a point; round() is Python's, half to     *)
(* even, computed on the exact sum.                                        *)
(***************************************************************************)

\* round(n / d) for n >= 0: to the nearest integer, a tie to the even one.
RoundHalfEven(n, d) ==
    LET q == n \div d
        r == n % d
    IN  IF 2 * r > d \/ (2 * r = d /\ q % 2 = 1) THEN q + 1 ELSE q

\* The mutant of MetadataAuth without its max(0, ...).
MetadataAuth_unclamped(risk_score) == 10 * (100 - risk_score)

\* metadata_auth = max(0, 100 - (risk_score * 100)), in tenths.
MetadataAuth(risk_score) == Max(0, 10 * (100 - risk_score))

\* The mutant of extract_visual_scores that scores a segmentation entry
\* that is no result record as 0.
extract_visual_scores_failed_zero(vis_details) ==
    LET sem == Get(vis_details, "semantic_segmentation", <<>>)
        sf_val == IF "str" \in DOMAIN sem THEN 0
                  ELSE Max(0, 1000 - 10 * Get(sem, "confidence_score", 0))
        ela_val == Get(Get(vis_details, "ela", <<>>), "max_difference", 0)
    IN  [sf |-> sf_val, ela |-> Max(0, 1000 - 15 * ela_val)]

\* The mutant of extract_visual_scores that also reads the TruFor entry.
extract_visual_scores_with_trufor(vis_details) ==
    LET sem == Get(vis_details, "semantic_segmentation", <<>>)
        sf_val == IF "str" \in DOMAIN sem THEN 1000
                  ELSE Max(0, 1000 - 10 * Get(sem, "confidence_score", 0))
        ela_val == Get(Get(vis_details, "ela", <<>>), "max_difference", 0)
        trust == Get(Get(vis_details, "trufor", <<>>), "trust_score", 100)
    IN  [sf |-> IF trust < 50 THEN 0 ELSE sf_val, ela |-> Max(0, 1000 - 15 * ela_val)]

\* extract_visual_scores(vis_details): (sf_val, ela_auth), in tenths.
extract_visual_scores(vis_details) ==
    LET sem == Get(vis_details, "semantic_segmentation", <<>>)
        sf_val == IF "str" \in DOMAIN sem THEN 1000
                  ELSE Max(0, 1000 - 10 * Get(sem, "confidence_score", 0))
        ela_val == Get(Get(vis_details, "ela", <<>>), "max_difference", 0)
    IN  [sf |-> sf_val, ela |-> Max(0, 1000 - 15 * ela_val)]

\* The mutant of WorstScores that keeps the scores of the last image.
RECURSIVE WorstScores_last(_, _)
WorstScores_last(images, acc) ==
    IF images = <<>> THEN acc
    ELSE LET v_rep == Get(Get(Head(images), "visual_report", <<>>), "details", <<>>)
         IN  WorstScores_last(Tail(images), extract_visual_scores(v_rep))

\* The loop over analyzed_images keeping the worst score of each kind.
RECURSIVE WorstScores(_, _)
WorstScores(images, acc) ==
    IF images = <<>> THEN acc
    ELSE LET v_rep == Get(Get(Head(images), "visual_report", <<>>), "details", <<>>)
             x == extract_visual_scores(v_rep)
         IN  WorstScores(Tail(images),
                         [sf |-> IF x.sf < acc.sf THEN x.sf ELSE acc.sf,
                          ela |-> IF x.ela < acc.ela THEN x.ela ELSE acc.ela])

\* The mutant of has_visual_components that looks at the pipeline alone.
has_visual_components_pipeline_only(pipeline_type, analyzed_images) ==
    pipeline_type = "VISUAL"

\* has_visual_components after Case A (if pipeline_type == VISUAL) and
\* Case B (elif analyzed_images).
has_visual_components(pipeline_type, analyzed_images) ==
    pipeline_type = "VISUAL" \/ analyzed_images # <<>>

\* The mutant with the weights of the AI and the ELA terms exchanged.
VisualFormula_swapped(ai_score, segformer_score, local_stats_score) ==
    20 * ai_score + 4 * segformer_score + 4 * local_stats_score

\* The weighted sum of the visual branch, in hundredths of a point.
VisualFormula(ai_score, segformer_score, local_stats_score) ==
    40 * ai_score + 4 * segformer_score + 2 * local_stats_score

\* The mutant of ai_score that takes 0 where the reasoner gave no score.
ai_score_default_zero(reasoning_result) == Get(reasoning_result, "authenticity_score", 0)

\* ai_score = reasoning_result.get("authenticity_score", 50)
ai_score(reasoning_result) == Get(reasoning_result, "authenticity_score", 50)

\* The HYBRID SCORING LOGIC of analyze_document: reasoning_result as
\* returned to the client, and the terms it was computed from.
FuseScore(pipeline_type, report, reasoning_result) ==
    LET ai == ai_score(reasoning_result)
        details == Get(report, "details", <<>>)
        analyzed_images == Get(details, "analyzed_images", <<>>)
        visual == has_visual_components(pipeline_type, analyzed_images)
        scores == IF pipeline_type = "VISUAL" THEN extract_visual_scores(details)
                  ELSE WorstScores(analyzed_images, [sf |-> 1000, ela |-> 1000])
        metadata_auth == MetadataAuth(Get(report, "score", 0))
        final_trust_score ==
            IF visual
            THEN VisualFormula(ai, scores.sf, scores.ela)
            ELSE 60 * ai + 4 * metadata_auth
    IN  [original_ai_score |-> ai,
         authenticity_score |-> RoundHalfEven(final_trust_score, 100),
         score_breakdown |->
             IF visual
             THEN [ai |-> 10 * ai, segformer |-> scores.sf, ela |-> scores.ela]
             ELSE [ai |-> 10 * ai, metadata |-> metadata_auth]]

\* What run_semantic_reasoning returns: the reasoner's JSON with its
\* authenticity_score (0-100), a JSON without one, or the error record.
AiScores == {0, 37, 50, 60, 80, 100}

ReasoningResults ==
    { [authenticity_score |-> a, summary |-> "text"] : a \in AiScores }
    \cup { [summary |-> "text"], [error |-> "Reasoning layer failed"] }

\* The most embedded images of a structural report that is fused.
FusionImages == 2

\* The visual reports that are fused: every outcome of the ELA and of the
\* segmentation task, the quantization and the TruFor check on both sides
\* of their thresholds, the noise task clean.
VisualResultsFused ==
    { Results(e, analyze_quantization(z), s, perform_noise_analysis, trufor_analyze(t)) :
        e \in Outcomes("ela") \cup {Exc("callback")},
        s \in Outcomes("seg") \cup {Exc("callback")},
        z \in HistogramGaps, t \in TrustScores }

\* The selected pipeline returns its report to analyze_document.
PipelineReturns ==
    /\ fu.pc = "running"
    /\ \/ /\ fu.pipeline_type = "VISUAL"
          /\ \E res \in VisualResultsFused, saved \in BOOLEAN :
                 fu' = [fu EXCEPT !.pc = "analyzed",
                            !.report = AggregateVisual(res, saved)]
       \/ /\ fu.pipeline_type = "STRUCTURAL"
          /\ \E f \in StructuralFiles :
                 \/ /\ ~f.readable
                    /\ fu' = [fu EXCEPT !.pc = "analyzed",
                                  !.report = analyze_structural(StructuralInput(
                                      f, FALSE, "raises", FALSE, 0, <<>>, NoRoot)).rep]
                 \/ /\ f.readable
                    /\ \E parses \in BOOLEAN :
                           fu' = [fu EXCEPT !.pc = "analyzed",
                                      !.report = analyze_structural(StructuralInput(
                                          f, parses, "raises", FALSE, 0, <<>>, NoRoot)).rep]
                 \/ /\ f.readable
                    /\ \E m \in MetaOutcomes \ {"raises"}, ro \in RootOutcomes,
                          k \in 0..FusionImages :
                         \E ev \in ImageEventSeqs(k) :
                           fu' = [fu EXCEPT !.pc = "analyzed",
                                      !.report = analyze_structural(StructuralInput(
                                          f, TRUE, m, FALSE, k, ev, ro)).rep]
       \/ /\ fu.pipeline_type = "CRYPTOGRAPHIC"
          /\ \E early \in {"setup", "none"} :
             \E events \in IF early = "none" THEN SignatureSeqs(MaxSigs) ELSE { <<>> } :
                 fu' = [fu EXCEPT !.pc = "analyzed",
                            !.report = analyze_cryptographic(early, events).rep]
    /\ UNCHANGED <<files, routeLog, vis, st, cr, mdl, up, ses, art>>

\* run_semantic_reasoning returns and the fused score is injected into
\* its result.
Fuse ==
    /\ fu.pc = "analyzed"
    /\ \E rr \in ReasoningResults :
           fu' = [fu EXCEPT !.pc = "fused", !.reasoning_result = rr,
                      !.reasoning = FuseScore(fu.pipeline_type, fu.report, rr)]
    /\ UNCHANGED <<files, routeLog, vis, st, cr, mdl, up, ses, art>>

InitFusion ==
    /\ art = Idle
    /\ mdl = Idle /\ up = Idle /\ ses = Idle
    /\ files = <<>>
    /\ routeLog = <<>>
    /\ vis = Idle
    /\ st = Idle
    /\ cr = Idle
    /\ \E p \in {"VISUAL", "STRUCTURAL", "CRYPTOGRAPHIC"} :
           fu = [pc |-> "running", pipeline_type |-> p, report |-> NoResult,
                 reasoning_result |-> NoResult, reasoning |-> NoResult]

NextFusion == PipelineReturns \/ Fuse

SpecFusion == InitFusion /\ [][NextFusion]_vars

(***************************************************************************)
(* The model handles: get_model of visual_model/inference and the          *)
(* TruForEngine singleton                                                  *)
(*                                                                         *)
(* run_tamper_detection, and get_model inside it, runs on a thread of the  *)
(* default executor, one thread per analyze_visual in flight;              *)
(* TruForEngine() is evaluated by the run_trufor coroutine on the thread   *)
(* of the event loop, with no await inside it.  A handle is the number of  *)
(* the load that built it, 0 is None.                                      *)
(***************************************************************************)

\* The most runs of analyze_visual in flight at once.
MaxCallers == 2

Callers == 1..MaxCallers

\* The most runs of analyze_visual, one after the other, of one caller.
MaxRuns == 2

\* get_model, line 17: if _model_instance is None.
GetModelTest(c) ==
    /\ mdl.th[c].seg_pc = "call"
    /\ mdl' = [mdl EXCEPT !.th[c].seg_pc =
                   IF mdl.seg.instance = 0 THEN "load" ELSE "return"]
    /\ UNCHANGED <<files, routeLog, vis, st, cr, fu, up, ses, art>>

\* get_model, lines 18-21: the model is built and its weights are loaded.
GetModelLoad(c) ==
    /\ mdl.th[c].seg_pc = "load"
    /\ mdl' = [mdl EXCEPT !.seg.loads = @ + 1,
                          !.th[c].seg_model = mdl.seg.loads + 1,
                          !.th[c].seg_pc = "assign"]
    /\ UNCHANGED <<files, routeLog, vis, st, cr, fu, up, ses, art>>

\* get_model, line 22: _model_instance = model.
GetModelAssign(c) ==
    /\ mdl.th[c].seg_pc = "assign"
    /\ mdl' = [mdl EXCEPT !.seg.instance = mdl.th[c].seg_model,
                          !.th[c].seg_pc = "return"]
    /\ UNCHANGED <<files, routeLog, vis, st, cr, fu, up, ses, art>>

\* get_model, line 23: return _model_instance; the caller runs the
\* inference on what it got.
GetModelReturn(c) ==
    /\ mdl.th[c].seg_pc = "return"
    /\ mdl' = [mdl EXCEPT !.th[c].seg_handle = mdl.seg.instance,
                          !.th[c].seg_pc = "done"]
    /\ UNCHANGED <<files, routeLog, vis, st, cr, fu, up, ses, art>>

\* TruForEngine.__new__, in one step of the event loop: the instance is
\* created and its model loaded when there is none yet.
TruForNew(c) ==
    /\ mdl.th[c].tf_pc = "call"
    /\ IF mdl.tf.instance = 0
       THEN mdl' = [mdl EXCEPT !.tf.loads = @ + 1,
                              !.tf.instance = mdl.tf.loads + 1,
                              !.th[c].tf_handle = mdl.tf.loads + 1,
                              !.th[c].tf_pc = "done"]
       ELSE mdl' = [mdl EXCEPT !.th[c].tf_handle = mdl.tf.instance,
                              !.th[c].tf_pc = "done"]
    /\ UNCHANGED <<files, routeLog, vis, st, cr, fu, up, ses, art>>

\* A run of analyze_visual has gathered its tasks; the next one starts.
CallerAgain(c) ==
    /\ mdl.th[c].seg_pc = "done" /\ mdl.th[c].tf_pc = "done"
    /\ mdl.th[c].runs < MaxRuns
    /\ mdl' = [mdl EXCEPT !.th[c] = [seg_pc |-> "call", seg_model |-> 0,
                                     seg_handle |-> 0, tf_pc |-> "call",
                                     tf_handle |-> 0, runs |-> mdl.th[c].runs + 1]]
    /\ UNCHANGED <<files, routeLog, vis, st, cr, fu, up, ses, art>>

InitModels ==
    /\ art = Idle
    /\ files = <<>>
    /\ routeLog = <<>>
    /\ vis = Idle /\ st = Idle /\ cr = Idle /\ fu = Idle
    /\ up = Idle /\ ses = Idle
    /\ mdl = [seg |-> [instance |-> 0, loads |-> 0],
              tf |-> [instance |-> 0, loads |-> 0],
              th |-> [c \in Callers |->
                         [seg_pc |-> "call", seg_model |-> 0, seg_handle |-> 0,
                          tf_pc |-> "call", tf_handle |-> 0, runs |-> 1]]]

NextModels ==
    \E c \in Callers :
        \/ GetModelTest(c) \/ GetModelLoad(c) \/ GetModelAssign(c)
        \/ GetModelReturn(c) \/ TruForNew(c) \/ CallerAgain(c)

SpecModels == InitModels /\ [][NextModels]_vars

(***************************************************************************)
(* The upload directory: upload_document, cleanup_stale_files and the      *)
(* files of the analyses                                                   *)
(*                                                                         *)
(* Time is in seconds and advances in steps of TickSeconds.  A file of the *)
(* directory is <<task, "input">> (the upload, written by upload_document) *)
(* or <<task, "artifact">> (an image an analyzer writes beside its input). *)
(***************************************************************************)

\* The uploads, each with its task id.
MaxUploads == 2

Tasks == 1..MaxUploads

TickSeconds == 100

\* How often the clock advances.
MaxTicks == 5

\* background_tasks.add_task(cleanup_stale_files, upload_path, 300)
max_age_seconds == 300

\* item.stat().st_mtime < current_time - max_age_seconds
Stale(mtime, current_time) == mtime < current_time - max_age_seconds

\* The directory without the files of the set gone.
Without(dir, gone) == [f \in DOMAIN dir \ gone |-> dir[f]]

\* The directory after open(path, "wb") and the write, at time now.
Written(dir, f, now) == [g \in DOMAIN dir \cup {f} |-> IF g = f THEN now ELSE dir[g]]

\* time.time() advances.
Tick ==
    /\ up.now < MaxTicks * TickSeconds
    /\ up' = [up EXCEPT !.now = @ + TickSeconds]
    /\ UNCHANGED <<files, routeLog, vis, st, cr, fu, mdl, ses, art>>

\* upload_document: the sweep is scheduled to run after the response, the
\* file is saved under its task id.
UploadDocument(t) ==
    /\ up.tasks[t].pc = "none"
    /\ up' = [up EXCEPT !.sweeps = @ + 1,
                        !.dir = Written(@, <<t, "input">>, up.now),
                        !.tasks[t].pc = "uploaded"]
    /\ UNCHANGED <<files, routeLog, vis, st, cr, fu, mdl, ses, art>>

\* cleanup_stale_files(directory, 300), as a background task: every entry
\* older than the threshold is removed.
CleanupStaleFiles ==
    /\ up.sweeps > 0
    /\ LET current_time == up.now
           gone == {f \in DOMAIN up.dir : Stale(up.dir[f], current_time)}
       IN  up' = [up EXCEPT !.sweeps = @ - 1,
                           !.dir = Without(@, gone),
                           !.removed = @ \cup {[name |-> f, mtime |-> up.dir[f],
                                                at |-> current_time] : f \in gone}]
    /\ UNCHANGED <<files, routeLog, vis, st, cr, fu, mdl, ses, art>>

\* analyze_document: the session looks its file up in the directory.
StartAnalysis(t) ==
    /\ up.tasks[t].pc = "uploaded"
    /\ up' = [up EXCEPT !.tasks[t].pc =
                  IF <<t, "input">> \in DOMAIN up.dir THEN "running" ELSE "not_found"]
    /\ UNCHANGED <<files, routeLog, vis, st, cr, fu, mdl, ses, art>>

\* The analyzer of a running session reads its input and writes an
\* artifact (the ELA image, the image of an embedded object) beside it.
WriteArtifact(t) ==
    /\ up.tasks[t].pc = "running"
    /\ ~up.tasks[t].artifact
    /\ <<t, "input">> \in DOMAIN up.dir
    /\ up' = [up EXCEPT !.dir = Written(@, <<t, "artifact">>, up.now),
                        !.tasks[t].artifact = TRUE]
    /\ UNCHANGED <<files, routeLog, vis, st, cr, fu, mdl, ses, art>>

\* The session ends: the final result was sent, or the session failed.
FinishAnalysis(t) ==
    /\ up.tasks[t].pc = "running"
    /\ up' = [up EXCEPT !.tasks[t].pc = "finished"]
    /\ UNCHANGED <<files, routeLog, vis, st, cr, fu, mdl, ses, art>>

InitCleanup ==
    /\ art = Idle
    /\ files = <<>>
    /\ routeLog = <<>>
    /\ vis = Idle /\ st = Idle /\ cr = Idle /\ fu = Idle
    /\ mdl = Idle /\ ses = Idle
    /\ up = [now |-> 0, dir |-> <<>>, sweeps |-> 0, removed |-> {},
             tasks |-> [t \in Tasks |-> [pc |-> "none", artifact |-> FALSE]]]

NextCleanup ==
    \/ Tick
    \/ CleanupStaleFiles
    \/ \E t \in Tasks :
           \/ UploadDocument(t) \/ StartAnalysis(t) \/ WriteArtifact(t)
           \/ FinishAnalysis(t)

SpecCleanup == InitCleanup /\ [][NextCleanup]_vars

(***************************************************************************)
(* analyze_document: one session, step by step                             *)
(*                                                                         *)
(* ses.log is the trace of the session: the messages that reached the      *)
(* client ("send", by their step), the calls of the analyzer, of           *)
(* upload_to_gcs and of run_semantic_reasoning ("call") and their returns  *)
(* ("ret", ok telling whether a value other than None came back).          *)
(***************************************************************************)

\* The stored file of the session, <task_id>.<ext>, and its bytes; an
\* image has no PDF structure.
SessionFiles ==
    { [name |-> <<"t", ".">> \o ExtPdf, content |-> c] : c \in Contents }
    \cup { [name |-> <<"t", ".", "p", "n", "g">>, content |-> [kind |-> "malformed", sigs |-> 0]],
           [name |-> <<"t", ".", "d", "o", "c">>, content |-> [kind |-> "malformed", sigs |-> 0]] }

\* The steps that are one websocket.send_json of an info message.
MessageSteps ==
    { "INIT", "TEXT_EXTRACTION", "PIPELINE_SELECTION", "PIPELINE_SELECTED",
      "ANALYSIS_RUNNING", "ANALYSIS_COMPLETE", "GCS_UPLOAD", "REASONING_START",
      "COMPLETE" }

\* The statement that follows a message in analyze_document.
StepAfter(step, file_ext) ==
    CASE step = "INIT" ->
             IF file_ext = ExtPdf THEN "TEXT_EXTRACTION" ELSE "PIPELINE_SELECTION"
      [] step = "TEXT_EXTRACTION" -> "PIPELINE_SELECTION"
      [] step = "PIPELINE_SELECTION" -> "determine"
      [] step = "PIPELINE_SELECTED" -> "ANALYSIS_RUNNING"
      [] step = "ANALYSIS_RUNNING" -> "analyze"
      [] step = "ANALYSIS_COMPLETE" -> "GCS_UPLOAD"
      [] step = "GCS_UPLOAD" -> "upload"
      [] step = "REASONING_START" -> "reason"
      [] OTHER -> "closed"

Sent(step) == [ev |-> "send", what |-> step, ok |-> TRUE]

Called(fn) == [ev |-> "call", what |-> fn, ok |-> TRUE]

Returned(fn, ok) == [ev |-> "ret", what |-> fn, ok |-> ok]

\* Where an exception raised by a send to a client that is gone ends the
\* session: in 'except WebSocketDisconnect', or in 'except Exception',
\* whose own send_json raises again.
Handlers == {"disconnected", "crashed"}

\* The reports the selected analyzer returns to a session.
SessionReports(pipeline_type) ==
    CASE pipeline_type = "VISUAL" -> {AggregateVisual(r, TRUE) : r \in EmbeddedResults}
      [] pipeline_type = "STRUCTURAL" ->
             {analyze_structural(StructuralInput(f, p, m, FALSE, 0, <<>>, NoRoot)).rep :
                 f \in {x \in StructuralFiles : x.eof <= 2}, p \in BOOLEAN,
                 m \in {"raises", "clean"}}
      [] OTHER ->
             {analyze_cryptographic("setup", <<>>).rep}
                 \cup {analyze_cryptographic("none", ev).rep : ev \in SignatureSeqs(1)}

\* The mutant of AfterUpload that goes on whatever upload_to_gcs returned.
AfterUpload_ignoring(has_uri) == "REASONING_START"

\* The mutant of AfterUpload that returns when the upload succeeded and
\* goes on when it failed.
AfterUpload_inverted(has_uri) == IF has_uri THEN "upload_failed" ELSE "REASONING_START"

\* if not gcs_uri: ... return
AfterUpload(has_uri) == IF has_uri THEN "REASONING_START" ELSE "upload_failed"

\* The file of the task is looked up in the upload directory.
SesLocate ==
    /\ ses.pc = "locate"
    /\ IF ses.found
       THEN ses' = [ses EXCEPT !.pc = "INIT"]
       ELSE IF ses.client = "gone"
            THEN \E h \in Handlers : ses' = [ses EXCEPT !.pc = h]
            ELSE ses' = [ses EXCEPT !.pc = "closed",
                                   !.log = Append(@, Sent("File not found"))]
    /\ UNCHANGED <<files, routeLog, vis, st, cr, fu, mdl, up, art>>

\* One info message is sent; the send raises when the client is gone.
SesSend ==
    /\ ses.pc \in MessageSteps
    /\ IF ses.client = "gone"
       THEN \E h \in Handlers : ses' = [ses EXCEPT !.pc = h]
       ELSE ses' = [ses EXCEPT !.pc = StepAfter(ses.pc, SplitLast(ses.file.name)),
                              !.log = Append(@, Sent(ses.pc))]
    /\ UNCHANGED <<files, routeLog, vis, st, cr, fu, mdl, up, art>>

\* pipeline_type = determine_pipeline(file_path, mime_type)
SesDetermine ==
    /\ ses.pc = "determine"
    /\ ses' = [ses EXCEPT !.pc = "PIPELINE_SELECTED",
                          !.pipeline_type =
                              determine_pipeline(ses.file.name, ses.file.content).value]
    /\ UNCHANGED <<files, routeLog, vis, st, cr, fu, mdl, up, art>>

\* The selected analyzer is awaited.  analyze_visual and
\* analyze_cryptographic send a progress message before anything else and
\* raise when the client is gone; otherwise the analyzer returns a report.
SesAnalyze ==
    /\ ses.pc = "analyze"
    /\ IF ses.client = "gone" /\ ses.pipeline_type # "STRUCTURAL"
       THEN \E h \in Handlers :
                ses' = [ses EXCEPT !.pc = h, !.log = Append(@, Called("analyze"))]
       ELSE \E rep \in SessionReports(ses.pipeline_type) :
                ses' = [ses EXCEPT !.pc = "ANALYSIS_COMPLETE", !.report = rep,
                                  !.log = @ \o <<Called("analyze"),
                                                 Returned("analyze", TRUE)>>]
    /\ UNCHANGED <<files, routeLog, vis, st, cr, fu, mdl, up, art>>

\* gcs_uri = upload_to_gcs(file_path, found_file), which returns None when
\* the upload fails; then the error message is sent and the session ends.
SesUpload ==
    /\ ses.pc = "upload"
    /\ \E has_uri \in BOOLEAN :
           LET log == ses.log \o <<Called("upload_to_gcs"),
                                   Returned("upload_to_gcs", has_uri)>>
               to == AfterUpload(has_uri)
           IN  IF to # "upload_failed"
               THEN ses' = [ses EXCEPT !.pc = to, !.gcs_uri = has_uri, !.log = log]
               ELSE IF ses.client = "gone"
                    THEN \E h \in Handlers :
                             ses' = [ses EXCEPT !.pc = h, !.gcs_uri = has_uri,
                                               !.log = log]
                    ELSE ses' = [ses EXCEPT !.pc = to, !.gcs_uri = has_uri,
                                           !.log = Append(log, Sent("GCS Upload Failed"))]
    /\ UNCHANGED <<files, routeLog, vis, st, cr, fu, mdl, up, art>>

\* The reasoner's JSON with an authenticity_score that is no number.
NonNumericScore == [authenticity_score |-> "null", summary |-> "text"]

\* run_semantic_reasoning returns and the hybrid score is computed.  On a
\* score that is no number the arithmetic raises: 'except Exception' sends
\* the error message, which raises again when the client is gone.
SesReason ==
    /\ ses.pc = "reason"
    /\ LET log == ses.log \o <<Called("run_semantic_reasoning"),
                               Returned("run_semantic_reasoning", TRUE)>>
       IN  \/ \E rr \in ReasoningResults :
                  ses' = [ses EXCEPT !.pc = "COMPLETE", !.reasoning_result = rr,
                                    !.reasoning = FuseScore(ses.pipeline_type,
                                                            ses.report, rr),
                                    !.log = log]
           \/ IF ses.client = "gone"
              THEN ses' = [ses EXCEPT !.pc = "crashed",
                                     !.reasoning_result = NonNumericScore,
                                     !.log = log]
              ELSE ses' = [ses EXCEPT !.pc = "failed",
                                     !.reasoning_result = NonNumericScore,
                                     !.log = Append(log, Sent("error"))]
    /\ UNCHANGED <<files, routeLog, vis, st, cr, fu, mdl, up, art>>

\* The client goes away while the session runs.
SesDisconnect ==
    /\ ses.pc \notin {"closed", "upload_failed", "failed"} \cup Handlers
    /\ ses.client = "connected"
    /\ ses' = [ses EXCEPT !.client = "gone"]
    /\ UNCHANGED <<files, routeLog, vis, st, cr, fu, mdl, up, art>>

InitSession ==
    /\ art = Idle
    /\ files = <<>>
    /\ routeLog = <<>>
    /\ vis = Idle /\ st = Idle /\ cr = Idle /\ fu = Idle
    /\ mdl = Idle /\ up = Idle
    /\ \E f \in SessionFiles, found \in BOOLEAN :
           ses = [pc |-> "locate", client |-> "connected", file |-> f,
                  found |-> found, pipeline_type |-> "NONE", report |-> NoResult,
                  gcs_uri |-> FALSE, reasoning_result |-> NoResult,
                  reasoning |-> NoResult, log |-> <<>>]

NextSession ==
    \/ SesLocate \/ SesSend \/ SesDetermine \/ SesAnalyze \/ SesUpload
    \/ SesReason \/ SesDisconnect

SpecSession == InitSession /\ [][NextSession]_vars

(***************************************************************************)
(* The files an analysis writes                                            *)
(*                                                                         *)
(* Every file is written into the directory of the input, so a path is     *)
(* told by its base name, a sequence of characters.  art.written holds one *)
(* record per write: the path and the step that wrote it, <<i, step>> for  *)
(* the analysis of embedded image i (-1 for the input of a visual run).    *)
(***************************************************************************)

\* The most embedded images of the inspected file.
MaxArtImages == 3

\* image_path + ".resaved.jpg"
ResavedPath(image_path) ==
    image_path \o <<".", "r", "e", "s", "a", "v", "e", "d", ".", "j", "p", "g">>

\* os.path.basename(image_path) + ".ela.png"
ElaPath(image_path) == image_path \o <<".", "e", "l", "a", ".", "p", "n", "g">>

\* os.path.basename(image_path) + ".noise.png"
NoisePath(image_path) == image_path \o <<".", "n", "o", "i", "s", "e", ".", "p", "n", "g">>

\* os.path.basename(file_path) + ".trufor.png"
TruforPath(file_path) == file_path \o <<".", "t", "r", "u", "f", "o", "r", ".", "p", "n", "g">>

\* str(idx) for the indices of the loop.
Digits(idx) == <<CASE idx = 0 -> "0" [] idx = 1 -> "1" [] idx = 2 -> "2"
                   [] idx = 3 -> "3" [] OTHER -> "4">>

\* The mutant of TempImageName that leaves the index out.
TempImageName_no_index(file_path, idx, name) ==
    file_path \o <<"_", "i", "m", "g", ".">> \o SplitLast(name)

\* f"{os.path.basename(file_path)}_img_{idx}.{img_obj.name.split('.')[-1]}"
TempImageName(file_path, idx, name) ==
    file_path \o <<"_", "i", "m", "g", "_">> \o Digits(idx) \o <<".">> \o SplitLast(name)

\* The names pypdf gives to embedded images: with an extension, without
\* one, and one that looks like an artifact.
ImageObjectNames ==
    { <<"I", ".", "p", "n", "g">>, <<"I", ".", "j", "p", "g">>, <<"X">>,
      <<"I", ".", "e", "l", "a", ".", "p", "n", "g">> }

\* The lists of at most n embedded images.
RECURSIVE ImageLists(_)
ImageLists(n) ==
    IF n = 0 THEN { <<>> }
    ELSE ImageLists(n - 1)
         \cup { Append(l, x) : l \in {y \in ImageLists(n - 1) : Len(y) = n - 1},
                               x \in ImageObjectNames }

\* The stored inputs: <task_id>.<ext> for an image and for a PDF.
ArtInputs ==
    { [kind |-> "visual", input |-> <<"t", ".">> \o e, images |-> <<>>] : e \in ImageExts }
    \cup { [kind |-> "structural", input |-> <<"t", ".">> \o ExtPdf, images |-> l] :
             l \in ImageLists(MaxArtImages) }

\* The image the visual checks are running on.
ArtTarget ==
    IF art.kind = "visual" THEN art.input
    ELSE TempImageName(art.input, art.idx, art.images[art.idx + 1])

Wrote(path, step) == [path |-> path, by |-> <<art.idx, step>>]

\* analyze_structural saves embedded image idx to its temporary file and
\* calls analyze_visual on it.
ArtWriteTemp ==
    /\ art.kind = "structural"
    /\ art.pc = "loop"
    /\ art.idx < Len(EmbeddedSlice(art.images))
    /\ art' = [art EXCEPT !.pc = "checks", !.todo = {"ela", "noise"},
                          !.written = @ \cup {Wrote(ArtTarget, "temp")}]
    /\ UNCHANGED <<files, routeLog, vis, st, cr, fu, mdl, up, ses>>

\* perform_ela writes the resaved copy and the amplified ELA image.
ArtEla ==
    /\ art.pc = "checks"
    /\ "ela" \in art.todo
    /\ art' = [art EXCEPT !.todo = @ \ {"ela"},
                          !.written = @ \cup {Wrote(ResavedPath(ArtTarget), "resaved"),
                                              Wrote(ElaPath(ArtTarget), "ela")}]
    /\ UNCHANGED <<files, routeLog, vis, st, cr, fu, mdl, up, ses>>

\* perform_noise_analysis writes the noise map.
ArtNoise ==
    /\ art.pc = "checks"
    /\ "noise" \in art.todo
    /\ art' = [art EXCEPT !.todo = @ \ {"noise"},
                          !.written = @ \cup {Wrote(NoisePath(ArtTarget), "noise")}]
    /\ UNCHANGED <<files, routeLog, vis, st, cr, fu, mdl, up, ses>>

\* The aggregation, after gather, writes the TruFor overlay; then the
\* visual run returns, to the loop of analyze_structural or to the session.
ArtTrufor ==
    /\ art.pc = "checks"
    /\ art.todo = {}
    /\ art' = [art EXCEPT !.pc = IF art.kind = "visual" THEN "done" ELSE "loop",
                          !.idx = IF art.kind = "visual" THEN @ ELSE @ + 1,
                          !.written = @ \cup {Wrote(TruforPath(ArtTarget), "trufor")}]
    /\ UNCHANGED <<files, routeLog, vis, st, cr, fu, mdl, up, ses>>

InitArtifacts ==
    /\ files = <<>>
    /\ routeLog = <<>>
    /\ vis = Idle /\ st = Idle /\ cr = Idle /\ fu = Idle
    /\ mdl = Idle /\ up = Idle /\ ses = Idle
    /\ \E a \in ArtInputs :
           art = [kind |-> a.kind, input |-> a.input, images |-> a.images,
                  pc |-> IF a.kind = "visual" THEN "checks" ELSE "loop",
                  idx |-> IF a.kind = "visual" THEN -1 ELSE 0,
                  todo |-> IF a.kind = "visual" THEN {"ela", "noise"} ELSE {},
                  written |-> {}]

NextArtifacts == ArtWriteTemp \/ ArtEla \/ ArtNoise \/ ArtTrufor

SpecArtifacts == InitArtifacts /\ [][NextArtifacts]_vars

(***************************************************************************)
(* Routing: the claims                                                     *)
(***************************************************************************)

\* The name has a '.' and the text after its last '.' is "pdf" in any case.
HasPdfExtension(name) ==
    /\ LastDot(name) > 0
    /\ Lower(SubSeq(name, LastDot(name) + 1, Len(name))) = ExtPdf

\* The name has a '.' and the text after its last '.' is an image extension.
HasImageExtension(name) ==
    /\ LastDot(name) > 0
    /\ Lower(SubSeq(name, LastDot(name) + 1, Len(name))) \in ImageExts

\* The file parses as a PDF and holds at least one signature field.
Signed(content) == content.kind = "pdf" /\ content.sigs >= 1

Calls == 1..Len(routeLog)

\* C3, as stated: two files of identical bytes and different names are
\* routed to the same pipeline, and signed content to CRYPTOGRAPHIC.
C3_AnyRenameKeepsPipeline ==
    \A i \in Calls, j \in Calls :
        (routeLog[i].content = routeLog[j].content
            /\ routeLog[i].name # routeLog[j].name)
        => /\ routeLog[i].out.value = routeLog[j].out.value
           /\ (Signed(routeLog[i].content)
                  => routeLog[i].out.value = "CRYPTOGRAPHIC")

\* C3, amended: two files of identical bytes whose names both have the
\* extension pdf (the text after the last '.', in any case) are routed to
\* the same pipeline whatever the rest of the names, and signed content to
\* CRYPTOGRAPHIC.
C3_PdfRenameKeepsPipeline ==
    \A i \in Calls, j \in Calls :
        (routeLog[i].content = routeLog[j].content
            /\ routeLog[i].name # routeLog[j].name
            /\ HasPdfExtension(routeLog[i].name)
            /\ HasPdfExtension(routeLog[j].name))
        => /\ routeLog[i].out.value = routeLog[j].out.value
           /\ (Signed(routeLog[i].content)
                  => routeLog[i].out.value = "CRYPTOGRAPHIC")

\* A signed PDF and its renamed copy, both with extension pdf, both routed.
C3_Witness ==
    \E i \in Calls, j \in Calls :
        /\ routeLog[i].name # routeLog[j].name
        /\ HasPdfExtension(routeLog[i].name)
        /\ HasPdfExtension(routeLog[j].name)
        /\ Signed(routeLog[i].content)
        /\ routeLog[j].content = routeLog[i].content
        /\ routeLog[i].out.value = "CRYPTOGRAPHIC"
        /\ routeLog[j].out.value = "CRYPTOGRAPHIC"

C5_Table(name, content) ==
    IF HasPdfExtension(name)
    THEN IF Signed(content) THEN "CRYPTOGRAPHIC" ELSE "STRUCTURAL"
    ELSE IF HasImageExtension(name) THEN "VISUAL" ELSE "STRUCTURAL"

\* C5, as stated: every call returns the pipeline of the routing table,
\* where the extension is the text after the last '.' and a name without
\* '.' is routed to STRUCTURAL.
C5_RoutingTable ==
    \A i \in Calls :
        /\ ~routeLog[i].out.raised
        /\ routeLog[i].out.value = C5_Table(routeLog[i].name, routeLog[i].content)

\* C6: a file with a pdf extension that cannot be opened or parsed makes
\* determine_pipeline raise nothing and return STRUCTURAL.
C6_UnreadablePdfIsStructural ==
    \A i \in Calls :
        (HasPdfExtension(routeLog[i].name)
            /\ routeLog[i].content.kind \in {"unreadable", "malformed"})
        => /\ ~routeLog[i].out.raised
           /\ routeLog[i].out.value = "STRUCTURAL"

\* A malformed and an unreadable file with a pdf extension have been routed.
C6_Witness ==
    \E i \in Calls :
        /\ HasPdfExtension(routeLog[i].name)
        /\ routeLog[i].content.kind = "malformed"
        /\ routeLog[i].out.value = "STRUCTURAL"
        /\ ~routeLog[i].out.raised

(***************************************************************************)
(* analyze_visual: the claims                                              *)
(***************************************************************************)

\* The key of details under which each check's entry is stored.
DetailKey(c) ==
    CASE c = "ela" -> "ela"
      [] c = "quant" -> "quantization"
      [] c = "seg" -> "semantic_segmentation"
      [] c = "noise" -> "noise_analysis"
      [] OTHER -> "trufor"

\* A gathered result is a failure: the task raised, or the helper returned
\* its error value.
CheckFailed(r) ==
    \/ IsException(r)
    \/ Get(r, "status", "None") = "error"
    \/ "error" \in DOMAIN r

\* An entry of details is marked as failed: status error, an error
\* message, or a failure string in place of the payload.
EntryFailed(e) ==
    \/ Get(e, "status", "None") = "error"
    \/ "error" \in DOMAIN e
    \/ "str" \in DOMAIN e

\* The score delta a result that is no failure stands for.
CheckDelta(c, r) ==
    CASE c = "ela" -> IF r.mean_difference > 15 THEN 40 ELSE 0
      [] c = "quant" -> IF r.histogram_gaps > 10 THEN 30 ELSE 0
      [] c = "seg" -> IF r.is_tampered THEN 60 ELSE 0
      [] c = "noise" -> 0
      [] OTHER -> IF r.trust_score < 50 THEN 80 ELSE 0

SumDeltas(res, cs) ==
    LET d(c) == IF c \in cs THEN CheckDelta(c, res[c]) ELSE 0
    IN  d("ela") + d("quant") + d("seg") + d("noise") + d("trufor")

VisResults == [c \in Checks |-> vis.chk[c].res]

\* Every check of the run was started and has failed.
AllChecksFailed ==
    /\ vis.pc \in {"gather", "done", "raised"}
    /\ \A c \in Checks : vis.chk[c].st = "settled" /\ CheckFailed(vis.chk[c].res)

\* C8: when all five checks fail, by raising or by their error value,
\* analyze_visual raises nothing, and the report it returns has score 0 and
\* exactly the five entries ela, quantization, semantic_segmentation,
\* noise_analysis and trufor, each marked as failed.
C8_AllFailStillReports ==
    AllChecksFailed =>
        /\ vis.pc # "raised"
        /\ vis.pc = "done" =>
               /\ vis.rep.score = 0
               /\ DOMAIN vis.rep.details = {DetailKey(c) : c \in Checks}
               /\ \A c \in Checks : EntryFailed(vis.rep.details[DetailKey(c)])

\* A report was returned after some checks raised and the others returned
\* their error value.
C8_Witness ==
    /\ AllChecksFailed
    /\ vis.pc = "done"
    /\ \E c \in Checks : IsException(vis.chk[c].res)
    /\ \E c \in Checks : ~IsException(vis.chk[c].res)
    /\ vis.rep.score = 0

\* C9: whatever subset of the checks fails, analyze_visual raises only
\* before any check was created; in the report each failed check has an
\* entry marked as failed, each other check has the entry it returned (the
\* TruFor entry with or without its raw arrays), not marked as failed, and
\* the score is the clamped sum of the deltas of the checks that did not
\* fail.
C9_FailuresAreIsolated ==
    /\ vis.pc = "raised" => \A c \in Checks : vis.chk[c].st = "none"
    /\ vis.pc = "done" =>
           LET res == VisResults
               ok == {c \in Checks : ~CheckFailed(res[c])}
           IN  /\ \A c \in Checks \ ok : EntryFailed(vis.rep.details[DetailKey(c)])
               /\ \A c \in ok :
                      /\ ~EntryFailed(vis.rep.details[DetailKey(c)])
                      /\ \/ vis.rep.details[DetailKey(c)] = res[c]
                         \/ c = "trufor"
                            /\ vis.rep.details[DetailKey(c)] = WithoutArrays(res[c])
               /\ vis.rep.score = Min(100, SumDeltas(res, ok))

\* A report where ELA raised, quantization returned its error value and the
\* segmentation check, which succeeded, has contributed its 0.6.
C9_Witness ==
    /\ vis.pc = "done"
    /\ IsException(vis.chk["ela"].res)
    /\ vis.chk["quant"].res = StatusError
    /\ ~CheckFailed(vis.chk["seg"].res)
    /\ vis.chk["seg"].res.is_tampered
    /\ ~CheckFailed(vis.chk["trufor"].res)
    /\ vis.rep.score = 60

(***************************************************************************)
(* The analyzers' scores: the claims                                       *)
(***************************************************************************)

\* The reports the analyzers have returned so far.
ReturnedReports ==
    (IF vis.pc = "done" THEN {vis.rep} ELSE {})
    \cup (IF st.pc = "done" THEN {st.rep} ELSE {})
    \cup (IF cr.pc = "done" THEN {cr.rep} ELSE {})

\* C1, as stated: every report returned by analyze_structural, by
\* analyze_visual and by analyze_cryptographic has 0 <= score <= 1, the
\* reports with a top-level 'error' included.
C1_ScoreInUnitInterval ==
    \A r \in ReturnedReports : 0 <= r.score /\ r.score <= 100

\* C7: the report of analyze_structural for a readable file without any
\* '%%EOF' marker has score 1.0, whatever the later checks find and whether
\* or not the PDF parser fails.
C7_NoEofScoresOne ==
    (st.pc = "done" /\ st.in.readable /\ st.in.eof = 0) => st.rep.score = 100

\* A report for a file without '%%EOF' whose metadata, embedded image and
\* root object have each added to the score before the clamp; and one where
\* the parser failed.
C7_Witness ==
    /\ st.pc = "done"
    /\ st.in.readable /\ st.in.eof = 0
    /\ st.in.parses /\ st.in.meta = "blacklisted" /\ st.in.root.js
    /\ Len(st.rep.flags) >= 4
    /\ st.rep.score = 100

(***************************************************************************)
(* The hybrid scoring: the claims                                          *)
(***************************************************************************)

\* C2: for every AI authenticity score in [0,100] and every report a
\* pipeline returned, the fused authenticity_score is an integer in
\* [0,100].
C2_FusedScoreInRange ==
    fu.pc = "fused" =>
        /\ fu.reasoning.authenticity_score \in Int
        /\ 0 <= fu.reasoning.authenticity_score
        /\ fu.reasoning.authenticity_score <= 100

\* A structural report whose unclamped score exceeds 1.0 has been fused.
C2_Witness ==
    /\ fu.pc = "fused"
    /\ fu.pipeline_type = "STRUCTURAL"
    /\ fu.report.score > 100
    /\ fu.reasoning.original_ai_score = 0
    /\ fu.reasoning.authenticity_score = 0

\* The report has a visual component: the pipeline was Visual, or the
\* report lists at least one analyzed image.
HasVisualComponent ==
    \/ fu.pipeline_type = "VISUAL"
    \/ /\ "details" \in DOMAIN fu.report
       /\ "analyzed_images" \in DOMAIN fu.report.details
       /\ Len(fu.report.details.analyzed_images) > 0

\* The details of the images that are fused: the report's own for Visual,
\* those of the analyzed embedded images otherwise.
FusedImages ==
    IF fu.pipeline_type = "VISUAL" THEN {fu.report.details}
    ELSE {fu.report.details.analyzed_images[i].visual_report.details :
            i \in 1..Len(fu.report.details.analyzed_images)}

\* 100 - confidence x 100 of an image, in tenths; 100.0 when the entry
\* holds no confidence.
SegmentationAuth(d) ==
    IF "confidence_score" \in DOMAIN d.semantic_segmentation
    THEN Max(0, 1000 - 10 * d.semantic_segmentation.confidence_score)
    ELSE 1000

\* max(0, 100 - max difference x 1.5) of an image, in tenths; 100.0 when
\* the entry holds no max difference.
StatisticalAuth(d) ==
    IF "max_difference" \in DOMAIN d.ela
    THEN Max(0, 1000 - 15 * d.ela.max_difference)
    ELSE 1000

SetMin(S) == CHOOSE x \in S : \A y \in S : x <= y

\* The AI score the fusion uses.
AiUsed == IF "authenticity_score" \in DOMAIN fu.reasoning_result
          THEN fu.reasoning_result.authenticity_score
          ELSE 50

C10_WitnessNonVisual ==
    /\ fu.pc = "fused"
    /\ ~HasVisualComponent
    /\ AiUsed = 60
    /\ fu.report.score = 50
    /\ fu.reasoning.authenticity_score = 56

\* The analyzed-image entries of the fused report.
AnalyzedImages ==
    IF "details" \in DOMAIN fu.report /\ "analyzed_images" \in DOMAIN fu.report.details
    THEN fu.report.details.analyzed_images
    ELSE <<>>

\* C11: for a Structural report with one or more analyzed embedded images,
\* the segmentation term and the statistical term used by the fusion are
\* each the minimum, over all analyzed images, of the image's authenticity.
C11_WorstCaseAggregation ==
    (fu.pc = "fused" /\ fu.pipeline_type = "STRUCTURAL" /\ AnalyzedImages # <<>>) =>
        LET ds == {AnalyzedImages[i].visual_report.details : i \in 1..Len(AnalyzedImages)}
        IN  /\ fu.reasoning.score_breakdown.segformer
                   = SetMin({SegmentationAuth(d) : d \in ds})
            /\ fu.reasoning.score_breakdown.ela
                   = SetMin({StatisticalAuth(d) : d \in ds})

\* The example of C11: two analyzed images with segmentation authenticity
\* 40 and 90, in this order, and a fused segmentation term of 40, that of
\* the first image; the statistical term is that of the first image too.
C11_Witness ==
    /\ fu.pc = "fused"
    /\ fu.pipeline_type = "STRUCTURAL"
    /\ Len(AnalyzedImages) = 2
    /\ SegmentationAuth(AnalyzedImages[1].visual_report.details) = 400
    /\ SegmentationAuth(AnalyzedImages[2].visual_report.details) = 900
    /\ StatisticalAuth(AnalyzedImages[1].visual_report.details) = 700
    /\ StatisticalAuth(AnalyzedImages[2].visual_report.details) = 1000
    /\ fu.reasoning.score_breakdown.segformer = 400
    /\ fu.reasoning.score_breakdown.ela = 700

\* The fusion took the visual branch: its breakdown names the segmentation
\* and the ELA term, not the metadata term.
TookVisualBranch ==
    /\ "segformer" \in DOMAIN fu.reasoning.score_breakdown
    /\ "ela" \in DOMAIN fu.reasoning.score_breakdown
    /\ ~("metadata" \in DOMAIN fu.reasoning.score_breakdown)

\* The fusion took the non-visual branch.
TookNonVisualBranch ==
    /\ "metadata" \in DOMAIN fu.reasoning.score_breakdown
    /\ ~("segformer" \in DOMAIN fu.reasoning.score_breakdown)

\* C12: the fusion takes the visual branch if and only if the pipeline is
\* Visual, or the pipeline is Structural and its report holds at least one
\* analyzed-image entry; otherwise (a Cryptographic report, a Structural
\* report without analyzed images) it takes the non-visual branch.
C12_VisualBranchIff ==
    fu.pc = "fused" =>
        IF \/ fu.pipeline_type = "VISUAL"
           \/ fu.pipeline_type = "STRUCTURAL" /\ AnalyzedImages # <<>>
        THEN TookVisualBranch
        ELSE TookNonVisualBranch

\* A Structural report of a file with embedded images of which none was
\* analyzed (the loop ended at the first image) took the non-visual branch.
C12_Witness ==
    /\ fu.pc = "fused"
    /\ fu.pipeline_type = "STRUCTURAL"
    /\ "details" \in DOMAIN fu.report
    /\ "embedded_image_count" \in DOMAIN fu.report.details
    /\ fu.report.details.embedded_image_count > 0
    /\ AnalyzedImages = <<>>
    /\ TookNonVisualBranch

(***************************************************************************)
(* analyze_cryptographic: the claims                                       *)
(***************************************************************************)

\* What one validated signature adds to the score according to C13.
SignatureRisk(e) ==
    (IF ~e.intact THEN 100 ELSE 0)
    + (IF e.revoked THEN 100 ELSE 0)
    + (IF ~e.trusted /\ e.intact /\ ~e.revoked THEN 30 ELSE 0)

\* The sum of SignatureRisk over the validated signatures of a list.
RECURSIVE RiskSum(_)
RiskSum(events) ==
    IF events = <<>> THEN 0
    ELSE (IF Head(events).ev = "validated" THEN SignatureRisk(Head(events)) ELSE 0)
         + RiskSum(Tail(events))

\* analyze_cryptographic went through the list of embedded signatures.
CryptoReturned == cr.pc = "done" /\ cr.early = "none"

FlagsOf(i) ==
    { cr.rep.flags[k][1] : k \in {x \in 1..Len(cr.rep.flags) : cr.rep.flags[x][2] = i} }

\* C14: when validating signature i raises, an error entry and an ERROR
\* flag are recorded for signature i only, every other signature is
\* validated and scored, no top-level 'error' is set, and
\* details.signature_count is the number of embedded signatures, with one
\* entry per signature, in order.
C14_SignatureErrorIsolated ==
    (CryptoReturned /\ cr.events # <<>>) =>
        LET sigs == cr.rep.details.signatures
        IN  /\ ~("error" \in DOMAIN cr.rep)
            /\ cr.rep.details.signature_count = Len(cr.events)
            /\ Len(sigs) = Len(cr.events)
            /\ \A i \in 1..Len(cr.events) :
                   /\ sigs[i].field = i
                   /\ IF cr.events[i].ev = "validated"
                      THEN /\ ~("error" \in DOMAIN sigs[i])
                           /\ sigs[i].intact = cr.events[i].intact
                           /\ sigs[i].revoked = cr.events[i].revoked
                           /\ sigs[i].trusted = cr.events[i].trusted
                           /\ ~("ERROR: Could not validate signature" \in FlagsOf(i))
                      ELSE /\ "error" \in DOMAIN sigs[i]
                           /\ FlagsOf(i) = {"ERROR: Could not validate signature"}
            /\ cr.rep.score = Min(100, RiskSum(cr.events))

\* The validation of the first signature raised and the second one, an
\* untrusted signature, was validated and scored.
C14_Witness ==
    /\ CryptoReturned
    /\ Len(cr.events) = 2
    /\ cr.events[1].ev = "validate_raises"
    /\ cr.events[2].ev = "validated" /\ cr.events[2].intact
    /\ ~cr.events[2].trusted /\ ~cr.events[2].revoked
    /\ cr.rep.details.signature_count = 2
    /\ cr.rep.score = 30

(***************************************************************************)
(* analyze_structural: the claims                                          *)
(***************************************************************************)

\* The run got as far as the metadata of a file that opened and parsed.
ReachedInspection == st.pc = "done" /\ st.in.readable /\ st.in.parses

\* The inspection of the embedded images raised: listing the images, or
\* the callback or the temporary file of one of the first three.
ImagesRaised ==
    \/ st.in.pages_raise
    \/ \E i \in 1..Min(Len(st.in.events), 3) : st.in.events[i].ev # "analyzed"

\* The warnings the report holds.
WarningsOf(rep) == IF "warnings" \in DOMAIN rep THEN {rep.warnings} ELSE {}

\* C15: an exception raised while analyze_structural inspects the
\* metadata, the embedded images or the root object is recorded as a
\* warning of the report; the remaining checks and the final clamp still
\* run, no top-level 'error' is set, and no recorded warning is lost.
C15_InspectionFailuresAreWarnings ==
    ReachedInspection =>
        /\ ~("error" \in DOMAIN st.rep)
        /\ st.rep.score <= 100
        /\ st.in.meta = "raises" => WarningsOf(st.rep) # {}
        /\ ImagesRaised => "Deep Image Inspection failed" \in WarningsOf(st.rep)
        /\ st.in.root.raises => "Advanced structural check warning" \in WarningsOf(st.rep)
        /\ (st.in.meta # "raises" /\ ~st.in.root.raises /\ st.in.root.js) =>
               \E k \in 1..Len(st.rep.flags) :
                   st.rep.flags[k] = "Contains Embeded JavaScript (High Risk)"

\* C16: one run of analyze_structural calls analyze_visual at most 3
\* times, on the first min(3, n) of the n embedded images in page order
\* (on fewer when a step of the loop raises), and every image on which
\* analyze_visual returned has its sub-report in details.analyzed_images,
\* one entry per image in index order, whatever its score; a sub-report
\* holds no analyzed images of its own.
C16_AtMostThreeImages ==
    st.pc = "done" =>
        LET n == st.in.count
            images == Get(Get(st.rep, "details", <<>>), "analyzed_images", <<>>)
        IN  /\ Len(st.called) <= 3
            /\ Len(st.called) <= n
            /\ \A i \in 1..Len(st.called) : st.called[i] = i - 1
            /\ (ReachedInspection /\ st.in.meta # "raises" /\ ~ImagesRaised) =>
                   Len(st.called) = Min(3, n)
            /\ Len(images) = Len(st.called)
            /\ \A i \in 1..Len(images) :
                   /\ images[i].index = i - 1
                   /\ images[i].visual_report = AggregateVisual(st.in.events[i].res, TRUE)
                   /\ ~("analyzed_images" \in DOMAIN images[i].visual_report.details)

\* A file with four embedded images: three were analyzed, the first of
\* them scored no more than 0.4 and its sub-report was kept.
C16_Witness ==
    /\ st.pc = "done"
    /\ st.in.count = 4
    /\ Len(st.in.events) = 4
    /\ st.called = <<0, 1, 2>>
    /\ Len(st.rep.details.analyzed_images) = 3
    /\ st.rep.details.analyzed_images[1].visual_report.score <= 40
    /\ st.rep.details.analyzed_images[2].visual_report.score > 40

(***************************************************************************)
(* The model handles: the claims                                           *)
(***************************************************************************)

\* C17: each model handle (the SegFormer model of get_model, the TruFor
\* model of TruForEngine) is initialized at most once per process under
\* any interleaving of concurrent callers, and every caller uses the same
\* handle.
C17_InitializedOnce ==
    /\ mdl.seg.loads <= 1
    /\ mdl.tf.loads <= 1
    /\ \A c, d \in Callers :
           /\ (mdl.th[c].seg_pc = "done" /\ mdl.th[d].seg_pc = "done") =>
                  mdl.th[c].seg_handle = mdl.th[d].seg_handle
           /\ (mdl.th[c].tf_pc = "done" /\ mdl.th[d].tf_pc = "done") =>
                  mdl.th[c].tf_handle = mdl.th[d].tf_handle

(***************************************************************************)
(* The upload directory: the claims                                        *)
(***************************************************************************)

\* C18: cleanup_stale_files removes only entries whose modification time
\* is older than the retention window of 300 s, never a newer one, and
\* under any interleaving of uploads and analysis sessions it never
\* removes the input file or an artifact of an analysis that is still
\* running.
C18_SweepNeverRacesAnalysis ==
    /\ \A x \in up.removed : x.at - x.mtime > 300
    /\ \A t \in Tasks :
           up.tasks[t].pc = "running" =>
               /\ <<t, "input">> \in DOMAIN up.dir
               /\ up.tasks[t].artifact => <<t, "artifact">> \in DOMAIN up.dir

(***************************************************************************)
(* Progress notifications after a disconnect: the claims                   *)
(***************************************************************************)

\* C19: when the session disconnects during an analysis, every dispatched
\* check runs to completion and is aggregated, and later progress
\* notifications are dropped: a progress callback that fails because the
\* destination is gone never aborts the analyzer, never prevents a check
\* from being run and never becomes a check failure of the report.
C19_DisconnectDropsNotifications ==
    /\ vis.pc # "raised"
    /\ \A c \in Checks :
           vis.chk[c].st = "settled" => vis.chk[c].res # Exc("callback")
    /\ vis.pc = "done" =>
           \A c \in Checks :
               IsException(vis.chk[c].res) => vis.chk[c].res = Exc("executor")

(***************************************************************************)
(* The order of a session's steps: the claims                              *)
(***************************************************************************)

\* The positions of the trace that hold the entry e.
Positions(e) == {i \in 1..Len(ses.log) : ses.log[i] = e}

\* C20: in every session upload_to_gcs is invoked only after the selected
\* pipeline has returned its report and the ANALYSIS_COMPLETE message has
\* been sent, and the AI reasoner is invoked only after the upload has
\* returned a remote reference.
C20_UploadAfterAnalysis ==
    /\ \A i \in Positions(Called("upload_to_gcs")) :
           \E j \in Positions(Returned("analyze", TRUE)) :
               \E k \in Positions(Sent("ANALYSIS_COMPLETE")) : j < k /\ k < i
    /\ \A i \in Positions(Called("run_semantic_reasoning")) :
           \E j \in Positions(Returned("upload_to_gcs", TRUE)) : j < i

\* A session that ran to its end: the report, the upload, the reasoner,
\* the final message.
C20_Witness ==
    /\ ses.pc = "closed"
    /\ Positions(Called("upload_to_gcs")) # {}
    /\ Positions(Called("run_semantic_reasoning")) # {}
    /\ Positions(Sent("COMPLETE")) # {}

(***************************************************************************)
(* analyze_visual: the task group, the entries, the score and the flags    *)
(***************************************************************************)

\* C21: analyze_visual starts all five checks before it waits for any of
\* them, no check waits for another (a check that was created can begin,
\* one that is running can settle, whatever the others do), and the
\* aggregation begins only after all five checks have settled.
C21_ConcurrentTaskGroup ==
    /\ vis.pc = "gather" =>
           /\ \A c \in Checks : vis.chk[c].st # "none"
           /\ \A c \in Checks :
                  /\ vis.chk[c].st = "created" => ENABLED CheckBegin(c)
                  /\ vis.chk[c].st = "running" => ENABLED CheckSettle(c)
           /\ vis.rep = NoResult
    /\ vis.pc = "done" =>
           /\ \A c \in Checks : vis.chk[c].st = "settled"
           /\ \E saved \in BOOLEAN : vis.rep = AggregateVisual(VisResults, saved)

\* The TruFor check has settled while the ELA check has not begun.
C21_Witness ==
    /\ vis.pc = "gather"
    /\ vis.chk["trufor"].st = "settled"
    /\ vis.chk["seg"].st = "running"
    /\ vis.chk["ela"].st = "created"

(***************************************************************************)
(* The files an analysis writes: the claims                                *)
(***************************************************************************)

\* C22: no two checks of one analyze_visual run write the same file: the
\* paths written by ELA (.resaved.jpg, .ela.png), by the noise mapping
\* (.noise.png) and for the TruFor overlay (.trufor.png) are pairwise
\* distinct and distinct from the input image; within one structural
\* analysis the temporary files of the embedded images and their artifacts
\* are pairwise distinct.
C22_DistinctArtifactPaths ==
    /\ \A w1, w2 \in art.written : w1.path = w2.path => w1.by = w2.by
    /\ \A w \in art.written : w.path # art.input

\* A structural analysis that went through three embedded images, two of
\* them of the same name: three temporary files, four artifacts of each.
C22_Witness ==
    /\ art.kind = "structural"
    /\ art.pc = "loop"
    /\ art.idx = 3
    /\ art.images[1] = art.images[2]
    /\ Cardinality(art.written) = 15
    /\ Cardinality({w.path : w \in art.written}) = 15

(***************************************************************************)
(* analyze_visual: the entries, the score and the flags of the report      *)
(***************************************************************************)

\* The metrics of each check's success payload.
Metrics(c) ==
    CASE c = "ela" -> {"max_difference", "mean_difference", "std_deviation",
                       "ela_image_path"}
      [] c = "quant" -> {"histogram_gaps", "suspicious"}
      [] c = "seg" -> {"is_tampered", "confidence_score"}
      [] c = "noise" -> {"noise_map_path"}
      [] OTHER -> {"trust_score"}

\* A full success payload: all metrics of the check, no error and no
\* message, and a status, where the payload has one, of success.
FullSuccess(c, e) ==
    /\ Metrics(c) \subseteq DOMAIN e
    /\ "error" \notin DOMAIN e
    /\ "message" \notin DOMAIN e
    /\ Get(e, "status", "success") = "success"

\* A full error payload: status error with a message.
FullError(e) ==
    /\ Get(e, "status", "None") = "error"
    /\ "message" \in DOMAIN e

\* C23: every check entry stored in the details of a visual report is
\* either a full success payload (all of that check's metrics, no error)
\* or a full error payload (status error with a message); never a
\* success-shaped payload that also carries an error, never a bare value of
\* another shape.
C23_EntriesNeverPartial ==
    vis.pc = "done" =>
        \A c \in Checks :
            LET e == vis.rep.details[DetailKey(c)]
            IN  FullSuccess(c, e) \/ FullError(e)

\* The check's result triggers its delta.
Triggered(c, r) ==
    /\ ~IsException(r)
    /\ CASE c = "ela" -> Get(r, "status", "None") = "success" /\ r.mean_difference > 15
         [] c = "quant" -> Get(r, "status", "None") = "success" /\ r.histogram_gaps > 10
         [] c = "seg" -> Get(r, "is_tampered", FALSE)
         [] c = "noise" -> FALSE
         [] OTHER -> Get(r, "trust_score", 100) < 50

Indicator(b) == IF b THEN 1 ELSE 0

\* The flag of each delta.
DeltaFlag(c) ==
    CASE c = "ela" -> "High ELA Response"
      [] c = "quant" -> "Suspicious Histogram"
      [] c = "seg" -> "SegFormer: Tampering Detected"
      [] OTHER -> "TruFor Detected Anomaly"

Occurrences(s, x) == Cardinality({i \in DOMAIN s : s[i] = x})

\* C24: for every combination of check results the score of analyze_visual
\* is min(1, 0.4*[ELA succeeded and mean difference > 15] + 0.3*[quantization
\* succeeded and histogram gaps > 10] + 0.6*[segmentation is_tampered] +
\* 0.8*[TruFor trust_score < 0.5]); the noise check contributes nothing,
\* and each triggered delta appends exactly one flag.
C24_VisualScore ==
    vis.pc = "done" =>
        /\ vis.rep.score =
               Min(100, 40 * Indicator(Triggered("ela", VisResults["ela"]))
                        + 30 * Indicator(Triggered("quant", VisResults["quant"]))
                        + 60 * Indicator(Triggered("seg", VisResults["seg"]))
                        + 80 * Indicator(Triggered("trufor", VisResults["trufor"])))
        /\ \A c \in Checks \ {"noise"} :
               Occurrences(vis.rep.flags, DeltaFlag(c))
                   = Indicator(Triggered(c, VisResults[c]))

\* ELA, segmentation and TruFor trigger (1.8 before the clamp) while the
\* noise task raised: the score is 1 and the report has three flags.
C24_Witness ==
    /\ vis.pc = "done"
    /\ Triggered("ela", VisResults["ela"])
    /\ VisResults["quant"] = analyze_quantization(10)
    /\ Triggered("seg", VisResults["seg"])
    /\ VisResults["trufor"] = trufor_analyze(49)
    /\ IsException(VisResults["noise"])
    /\ vis.rep.score = 100
    /\ Len(vis.rep.flags) = 3

\* The flags a check's result stands for.
FlagsFor(c, r) ==
    IF c = "ela" /\ IsException(r) THEN <<"ELA Failed">>
    ELSE IF Triggered(c, r) THEN <<DeltaFlag(c)>> ELSE <<>>

\* C30: the flags of a visual report are the same for every completion
\* order of the five checks: no flag exists before the aggregation, and
\* the aggregation appends them in the fixed order ELA, quantization,
\* segmentation, TruFor, whichever check settled first.
C30_FlagsInFixedOrder ==
    /\ vis.pc \in {"called", "gather", "raised"} => vis.rep = NoResult
    /\ vis.pc = "done" =>
           vis.rep.flags = FlagsFor("ela", VisResults["ela"])
                               \o FlagsFor("quant", VisResults["quant"])
                               \o FlagsFor("seg", VisResults["seg"])
                               \o FlagsFor("trufor", VisResults["trufor"])

\* TruFor settled before every other check and flagged an anomaly, ELA
\* flagged too: the flag of ELA comes first.
C30_Witness ==
    /\ vis.pc = "done"
    /\ vis.first = "trufor"
    /\ vis.rep.flags = <<"High ELA Response", "TruFor Detected Anomaly">>

(***************************************************************************)
(* analyze_structural: the score                                           *)
(***************************************************************************)

\* The score of analyze_visual on gathered results, by the formula of C24.
SubScore(res) ==
    Min(100, 40 * Indicator(Triggered("ela", res["ela"]))
             + 30 * Indicator(Triggered("quant", res["quant"]))
             + 60 * Indicator(Triggered("seg", res["seg"]))
             + 80 * Indicator(Triggered("trufor", res["trufor"])))

\* What one analyzed image adds to the structural score.
ImageTerm(res) ==
    IF SubScore(res) > 40
    THEN 40 + 30 * Indicator(Triggered("seg", res["seg"]))
    ELSE 0

\* The sum of the terms of the first n images.
RECURSIVE ImageTerms(_, _)
ImageTerms(events, n) ==
    IF n = 0 THEN 0 ELSE ImageTerms(events, n - 1) + ImageTerm(events[n].res)

\* The metadata term M.
MetadataTerm(meta) ==
    CASE meta = "absent" -> 10
      [] meta = "no_producer" -> 20
      [] meta = "blacklisted" -> 30
      [] OTHER -> 0

\* The run was on a file with at least one '%%EOF' marker that the parser
\* and the metadata read accepted.
ParsedWithoutFailure ==
    /\ st.pc = "done"
    /\ st.in.readable
    /\ st.in.eof >= 1
    /\ st.in.parses
    /\ st.in.meta # "raises"

\* C25: for a file with at least one '%%EOF' marker that parses without
\* failure, the score of analyze_structural is min(1, 0.15*(eofCount-1) + M
\* + 0.3*[embedded-files entry in root] + 0.5*[script entry in root] + the
\* sum over the analyzed images with sub-score > 0.4 of (0.4 + 0.3*[that
\* image's segmentation check flagged tampering])), M being 0.1 (metadata
\* absent), 0.2 (producer missing or empty), 0.3 (producer blacklisted) or 0.
C25_StructuralScore ==
    ParsedWithoutFailure =>
        st.rep.score =
            Min(100, 15 * (st.in.eof - 1) + MetadataTerm(st.in.meta)
                     + 30 * Indicator(st.in.root.embedded)
                     + 50 * Indicator(st.in.root.js)
                     + ImageTerms(st.in.events, Len(st.called)))

\* Two '%%EOF' markers, no metadata, and two analyzed images: one of
\* sub-score exactly 0.4, which adds nothing, and one of sub-score 0.7
\* whose segmentation task raised, which adds 0.4: the score is 0.65.
C25_Witness ==
    /\ ParsedWithoutFailure
    /\ st.in.eof = 2
    /\ st.in.meta = "absent"
    /\ ~st.in.root.embedded /\ ~st.in.root.js
    /\ Len(st.called) = 2
    /\ SubScore(st.in.events[1].res) = 40
    /\ SubScore(st.in.events[2].res) = 70
    /\ IsException(st.in.events[2].res["seg"])
    /\ st.rep.score = 65

(***************************************************************************)
(* The hybrid scoring: failed checks, and what the fused score depends on  *)
(***************************************************************************)

\* The segmentation entry of an image is that of a failed check: no result
\* record, a record that carries an error, or one without a confidence.
SegmentationFailed(d) ==
    \/ "str" \in DOMAIN d.semantic_segmentation
    \/ "error" \in DOMAIN d.semantic_segmentation
    \/ "confidence_score" \notin DOMAIN d.semantic_segmentation

\* The ELA entry of an image is that of a failed check.
ElaFailed(d) == Get(d.ela, "status", "None") # "success"

\* C26: in the fusion, an analyzed image whose segmentation check failed
\* contributes segmentation authenticity 100 and an image whose ELA check
\* failed contributes statistical authenticity 100: the two terms are the
\* minima over 100 and the authenticities of the images whose check
\* succeeded, and the fused score is computed from these.
C26_FailedChecksCountAsClean ==
    (fu.pc = "fused" /\ HasVisualComponent) =>
        LET seg == SetMin({1000} \cup
                       {Max(0, 1000 - 10 * d.semantic_segmentation.confidence_score) :
                           d \in {x \in FusedImages : ~SegmentationFailed(x)}})
            stat == SetMin({1000} \cup
                       {Max(0, 1000 - 15 * d.ela.max_difference) :
                           d \in {x \in FusedImages : ~ElaFailed(x)}})
        IN  /\ fu.reasoning.score_breakdown.segformer = seg
            /\ fu.reasoning.score_breakdown.ela = stat
            /\ fu.reasoning.authenticity_score
                   = RoundHalfEven(40 * AiUsed + 4 * seg + 2 * stat, 100)

\* A Visual report whose segmentation task raised (the entry is a string)
\* and whose ELA task raised too: both terms are 100 and, with an AI score
\* of 50, the fused score is 80.
C26_Witness ==
    /\ fu.pc = "fused"
    /\ fu.pipeline_type = "VISUAL"
    /\ "str" \in DOMAIN fu.report.details.semantic_segmentation
    /\ fu.report.details.ela = [status |-> "error"]
    /\ AiUsed = 50
    /\ fu.reasoning.score_breakdown.segformer = 1000
    /\ fu.reasoning.score_breakdown.ela = 1000
    /\ fu.reasoning.authenticity_score = 80

\* What the details of one image hold of the segmentation confidence and
\* of the ELA maximum difference, and nothing else.
ProjectDetails(d) ==
    [semantic_segmentation |->
         IF "confidence_score" \in DOMAIN d.semantic_segmentation
         THEN [confidence_score |-> d.semantic_segmentation.confidence_score]
         ELSE <<>>,
     ela |-> IF "max_difference" \in DOMAIN d.ela
             THEN [max_difference |-> d.ela.max_difference]
             ELSE <<>>]

\* The fused report with everything removed but these two values of each
\* analyzed image: no risk score, no flags, no quantization, noise or
\* TruFor entry, no metadata and no root-object finding.
ProjectedReport ==
    IF fu.pipeline_type = "VISUAL"
    THEN [details |-> ProjectDetails(fu.report.details)]
    ELSE [details |->
             [analyzed_images |->
                 [i \in 1..Len(AnalyzedImages) |->
                     [visual_report |->
                         [details |->
                             ProjectDetails(AnalyzedImages[i].visual_report.details)]]]]]

LogPositions(e) == {i \in 1..Len(ses.log) : ses.log[i] = e}

\* C27: when the object-store upload fails the session sends an error
\* message and then never invokes the AI reasoner, never computes a fused
\* score and never sends COMPLETE; in every session at most one COMPLETE
\* message is sent and no message is sent after it.
C27_UploadFailureEndsSession ==
    /\ \A i \in LogPositions(Returned("upload_to_gcs", FALSE)) :
           /\ ses.pc \in {"upload_failed"} \cup Handlers
           /\ ses.pc = "upload_failed" =>
                  /\ Len(ses.log) = i + 1
                  /\ ses.log[i + 1] = Sent("GCS Upload Failed")
           /\ ses.pc \in Handlers => ses.client = "gone" /\ Len(ses.log) = i
           /\ LogPositions(Called("run_semantic_reasoning")) = {}
           /\ LogPositions(Sent("COMPLETE")) = {}
           /\ ses.reasoning = NoResult
    /\ Cardinality(LogPositions(Sent("COMPLETE"))) <= 1
    /\ \A i \in LogPositions(Sent("COMPLETE")) : i = Len(ses.log)

\* The upload failed with the client connected: the error message is the
\* last entry of the log and the session is over.
C27_Witness ==
    /\ ses.pc = "upload_failed"
    /\ Len(ses.log) >= 2
    /\ ses.log[Len(ses.log) - 1] = Returned("upload_to_gcs", FALSE)
    /\ ses.log[Len(ses.log)] = Sent("GCS Upload Failed")
    /\ ses.reasoning = NoResult

\* The reasoner returned its error record or a result without an
\* authenticity_score.
ReasonerGaveNoScore ==
    /\ ses.reasoning_result # NoResult
    /\ "authenticity_score" \notin DOMAIN ses.reasoning_result

\* C28: when the AI reasoner fails (it returns its error record) or returns
\* no authenticity_score, the fusion uses 50 as the AI score, the session
\* still ends with COMPLETE (unless the client is gone, when the send
\* raises), and the response reports original_ai_score = 50 together with
\* the fused score.
C28_ReasonerFailureDefaults ==
    ReasonerGaveNoScore =>
        /\ ses.reasoning.original_ai_score = 50
        /\ ses.reasoning.authenticity_score
               = FuseScore(ses.pipeline_type, ses.report,
                           [authenticity_score |-> 50]).authenticity_score
        /\ "score_breakdown" \in DOMAIN ses.reasoning
        /\ ses.pc \in {"COMPLETE", "closed"} \cup Handlers
        /\ ses.pc = "closed" => ses.log[Len(ses.log)] = Sent("COMPLETE")
        /\ ses.pc \in Handlers => ses.client = "gone"

\* The reasoner returned its error record for a Cryptographic report of
\* risk score 0, and the session ended with COMPLETE: the fused score is
\* round(50 * 0.6 + 100 * 0.4) = 70.
C28_Witness ==
    /\ ses.pc = "closed"
    /\ ses.reasoning_result = [error |-> "Reasoning layer failed"]
    /\ ses.log[Len(ses.log)] = Sent("COMPLETE")
    /\ ses.pipeline_type = "CRYPTOGRAPHIC"
    /\ ses.report.score = 0
    /\ ses.reasoning.original_ai_score = 50
    /\ ses.reasoning.authenticity_score = 70

====
